---- MODULE Spec2Model ----
(***************************************************************************)
(* Model of the poster compositing pipeline of prompter_giri:              *)
(*   src/lib/imageProcessor.ts     (registerCanvasFonts, mergeImages)      *)
(*   src/app/api/generate/route.ts (POST, the caller of mergeImages)       *)
(*   src/test-text-rendering.js    (the font auto-scaling test)            *)
(*                                                                         *)
(* A raster is a record [width, height, stack, text, valid, fit]; stack is *)
(* the z-order of the sources flattened into it, bottom first, and fit the *)
(* geometry of its last resize.  A text is a sequence of one-character     *)
(* strings.  Each action of mergeImages is the code between two awaits.    *)
(*                                                                         *)
(* Spec      one invocation of mergeImages after the other                 *)
(* SpecTwice invocations repeated with the same arguments                  *)
(* SpecConc  concurrent requests of the route                              *)
(* SpecFont  the auto-scaling of the font size, as a function              *)
(* SpecText  the normalisation of the texts, as a function                 *)
(***************************************************************************)
EXTENDS Integers, Sequences, FiniteSets, TLC

(***************************************************************************)
(* Bounds of the model.                                                    *)
(***************************************************************************)
\* texts of the auto-scaling specification have 0..MaxTextLen characters
MaxTextLen == 110
\* timestamps handed to mergeImages are 1..MaxTimestamp
MaxTimestamp == 2
\* mergeImages is called at most MaxInvocations times in the process
MaxInvocations == 2
\* the requests the route handles concurrently are 1..NumRequests
NumRequests == 2
\* the texts of the normalisation specification have 0..MaxNormLen characters
MaxNormLen == 3
\* the files a user of the ImageGenerator component picks from
MaxFiles == 2

(***************************************************************************)
(* Program constants of mergeImages.                                       *)
(***************************************************************************)
maxWidth == 900
baseNameSize == 64
baseDesSize == 36
nameFloor == 24
desFloor == 18
charTopOffset == 350
charLeftOffset == 0
defaultBgWidth == 1024
defaultBgHeight == 1024
defaultLayerWidth == 1080
defaultLayerHeight == 1920
\* base size of the test cases of test-text-rendering.js
testBaseSize == 80

Max(a, b) == IF a >= b THEN a ELSE b

(***************************************************************************)
(* Texts.                                                                  *)
(***************************************************************************)
LowerLetters ==
    <<"a", "b", "c", "d", "e", "f", "g", "h", "i", "j", "k", "l", "m",
      "n", "o", "p", "q", "r", "s", "t", "u", "v", "w", "x", "y", "z">>
UpperLetters ==
    <<"A", "B", "C", "D", "E", "F", "G", "H", "I", "J", "K", "L", "M",
      "N", "O", "P", "Q", "R", "S", "T", "U", "V", "W", "X", "Y", "Z">>

IndexOf(c, letters) ==
    IF \E i \in 1..Len(letters) : letters[i] = c
    THEN CHOOSE i \in 1..Len(letters) : letters[i] = c
    ELSE 0

\* String.prototype.toUpperCase, one character
UpperChar(c) ==
    IF IndexOf(c, LowerLetters) > 0 THEN UpperLetters[IndexOf(c, LowerLetters)] ELSE c

\* String.prototype.toLowerCase, one character
LowerChar(c) ==
    IF IndexOf(c, UpperLetters) > 0 THEN LowerLetters[IndexOf(c, UpperLetters)] ELSE c

toUpperCase(s) == [i \in 1..Len(s) |-> UpperChar(s[i])]
toLowerCase(s) == [i \in 1..Len(s) |-> LowerChar(s[i])]

\* the regular expression class \w
IsWordChar(c) ==
    \/ IndexOf(c, LowerLetters) > 0
    \/ IndexOf(c, UpperLetters) > 0
    \/ c \in {"0", "1", "2", "3", "_"}

\* s.replace(/\b\w/g, char => char.toUpperCase()): a word character that is
\* the first of the text or follows a non-word character
TitleCase(s) ==
    [i \in 1..Len(s) |->
        IF IsWordChar(s[i]) /\ (i = 1 \/ ~IsWordChar(s[i - 1]))
        THEN UpperChar(s[i]) ELSE s[i]]

\* name ? name.toUpperCase() : ''
NormalizeName(name) == IF Len(name) > 0 THEN toUpperCase(name) ELSE <<>>

\* designation ? designation.toLowerCase().replace(/\b\w/g, ...) : ''
NormalizeDesignation(designation) ==
    IF Len(designation) > 0 THEN TitleCase(toLowerCase(designation)) ELSE <<>>

\* a text of n characters repeating a pattern
Repeat(pattern, n) == [i \in 1..n |-> pattern[((i - 1) % Len(pattern)) + 1]]

(***************************************************************************)
(* Auto-scaling of the font size.  The glyph-width factor is given in      *)
(* tenths (0.6 is 6, 0.5 is 5) and widths in tenths of a pixel; for every  *)
(* length up to 400 the IEEE-754 evaluation of the source expressions      *)
(* gives the same comparison and the same floor as this exact arithmetic.  *)
(***************************************************************************)
\* ten times text.length * (baseSize * factor)
EstimatedWidth10(len, baseSize, factor10) == len * baseSize * factor10

\* estimatedWidth > maxW
ExceedsMaxWidth(len, baseSize, factor10, maxW) ==
    EstimatedWidth10(len, baseSize, factor10) > maxW * 10

\* mutant: Math.ceil in place of Math.floor
ScaledFontSizeCeil(len, baseSize, factor10, maxW) ==
    (baseSize * maxW * 10 + EstimatedWidth10(len, baseSize, factor10) - 1)
        \div EstimatedWidth10(len, baseSize, factor10)

\* mutant: Math.round in place of Math.floor
ScaledFontSizeRound(len, baseSize, factor10, maxW) ==
    (2 * baseSize * maxW * 10 + EstimatedWidth10(len, baseSize, factor10))
        \div (2 * EstimatedWidth10(len, baseSize, factor10))

\* Math.floor(baseSize * (maxW / estimatedWidth))
ScaledFontSize(len, baseSize, factor10, maxW) ==
    (baseSize * maxW * 10) \div EstimatedWidth10(len, baseSize, factor10)

\* mutant: every non-empty text is scaled, fitting or not
ComputeFontSizeAlwaysScaled(len, baseSize, factor10, maxW) ==
    IF len > 0 THEN ScaledFontSize(len, baseSize, factor10, maxW) ELSE baseSize

\* estimatedWidth > maxWidth ? Math.floor(...) : baseSize
ComputeFontSize(len, baseSize, factor10, maxW) ==
    IF ExceedsMaxWidth(len, baseSize, factor10, maxW)
    THEN ScaledFontSize(len, baseSize, factor10, maxW)
    ELSE baseSize

nameFactor10 == 6
desFactor10 == 5
testFactor10 == 6

NameFontSize(nameText) ==
    ComputeFontSize(Len(nameText), baseNameSize, nameFactor10, maxWidth)
DesFontSize(desText) ==
    ComputeFontSize(Len(desText), baseDesSize, desFactor10, maxWidth)

\* mutant: the canvas path draws the name at the unclamped size
CanvasNameFontSizeUnclamped(nameText) == NameFontSize(nameText)

\* the font sizes handed to the renderers: Math.max(nameFontSize, 24) and
\* Math.max(desFontSize, 18)
CanvasNameFontSize(nameText) == Max(NameFontSize(nameText), nameFloor)
CanvasDesFontSize(desText) == Max(DesFontSize(desText), desFloor)
SvgNameFontSize(nameText) == Max(NameFontSize(nameText), nameFloor)
SvgDesFontSize(desText) == Max(DesFontSize(desText), desFloor)

\* Math.floor(canvasHeight * 0.742), Math.floor(canvasHeight * 0.774)
NameY(canvasHeight) == (canvasHeight * 742) \div 1000
DesY(canvasHeight) == (canvasHeight * 774) \div 1000

(***************************************************************************)
(* Rasters and the sharp operations mergeImages uses.                      *)
(***************************************************************************)
NoItem ==
    [text |-> <<>>, x |-> 0, y |-> 0, fontSize |-> 0, color |-> "", weight |-> 0,
     family |-> "", face |-> "", anchor |-> "", baseline |-> "", letterSpacing |-> 0]
NoText == [backend |-> "none", name |-> NoItem, des |-> NoItem]

\* how the last resize of a raster mapped its source onto the box
NoFit ==
    [kind |-> "none", position |-> "none", fromWidth |-> 0, fromHeight |-> 0,
     scaledWidth |-> 0, scaledHeight |-> 0, cropLeft |-> 0, cropTop |-> 0]

\* a decoded source image: one source in its stack, no text drawn on it
Source(label, w, h) ==
    [width |-> w, height |-> h, stack |-> <<label>>, text |-> NoText, valid |-> TRUE,
     fit |-> NoFit]

NoImage ==
    [width |-> 0, height |-> 0, stack |-> <<>>, text |-> NoText, valid |-> FALSE,
     fit |-> NoFit]

CeilDiv(a, b) == (a + b - 1) \div b

\* fit 'cover': one scale for both axes, the larger of w/sw and h/sh, so the
\* scaled image covers the box; the overflow is cropped, around the centre
\* or, with position 'top', from the bottom only
CoverFit(sw, sh, w, h, position) ==
    IF sw = 0 \/ sh = 0 THEN NoFit
    ELSE
        LET byWidth == w * sh >= h * sw
            scaledWidth == IF byWidth THEN w ELSE CeilDiv(sw * h, sh)
            scaledHeight == IF byWidth THEN CeilDiv(sh * w, sw) ELSE h
        IN  [kind |-> "cover", position |-> position, fromWidth |-> sw, fromHeight |-> sh,
             scaledWidth |-> scaledWidth, scaledHeight |-> scaledHeight,
             cropLeft |-> (scaledWidth - w) \div 2,
             cropTop |-> IF position = "top" THEN 0 ELSE (scaledHeight - h) \div 2]

\* fit 'fill': each axis has its own scale, nothing is cropped
FillFit(sw, sh, w, h) ==
    [kind |-> "fill", position |-> "none", fromWidth |-> sw, fromHeight |-> sh,
     scaledWidth |-> w, scaledHeight |-> h, cropLeft |-> 0, cropTop |-> 0]

\* sharp(input).resize(w, h, {fit: 'cover', position}): exactly w x h
ResizeCover(img, w, h, position) ==
    [img EXCEPT !.width = w, !.height = h,
                !.fit = CoverFit(img.width, img.height, w, h, position)]

\* mutant: the image is stretched to the box
ResizeFill(img, w, h) ==
    [img EXCEPT !.width = w, !.height = h, !.fit = FillFit(img.width, img.height, w, h)]

\* sharp(input).resize(w, h) and resize(w, h, {fit: 'cover'}): the fit of
\* sharp is 'cover' and its position 'centre' unless the options say otherwise
Resize(img, w, h) == ResizeCover(img, w, h, "centre")

\* sharp rejects an undecodable overlay and an overlay larger than the base
CompositeOk(base, layers) ==
    \A i \in 1..Len(layers) :
        /\ layers[i].input.valid
        /\ layers[i].input.width <= base.width
        /\ layers[i].input.height <= base.height

\* one overlay: 'over' draws the input above the base, 'dest-over' below it;
\* the canvas keeps the size of the base
CompositeOne(base, layer) ==
    [base EXCEPT
        !.stack = IF layer.blend = "dest-over"
                  THEN layer.input.stack \o base.stack
                  ELSE base.stack \o layer.input.stack,
        !.text = IF layer.input.text # NoText THEN layer.input.text ELSE base.text]

\* sharp(base).composite(layers): the overlays are applied in list order
RECURSIVE Composite(_, _)
Composite(base, layers) ==
    IF layers = <<>> THEN base
    ELSE Composite(CompositeOne(base, Head(layers)), Tail(layers))

\* mutant: the fallback size is taken whatever the metadata says
OrDefaultAlways(v, fallback) == fallback

\* metadata.width || fallback
OrDefault(v, fallback) == IF v = 0 THEN fallback ELSE v

\* mutant: the character box is as high as the frame
CharHeightFull(layerHeight) == layerHeight

\* Math.floor(layerHeight * 0.60)
CharHeight(layerHeight) == (layerHeight * 60) \div 100

(***************************************************************************)
(* Inputs the model draws.                                                 *)
(***************************************************************************)
MissingAsset == [readable |-> FALSE, width |-> 0, height |-> 0]
Asset(w, h) == [readable |-> TRUE, width |-> w, height |-> h]

\* public/background.png and public/layer.png: one of them unreadable, both
\* portrait posters, a landscape background with a small frame
AssetInputs ==
    {[background |-> MissingAsset, layer |-> Asset(1080, 1920)],
     [background |-> Asset(1080, 1920), layer |-> MissingAsset],
     [background |-> Asset(1080, 1920), layer |-> Asset(1080, 1920)],
     [background |-> Asset(800, 600), layer |-> Asset(540, 800)]}
\* a square image, wider than the character box of a 1080 x 1920 frame, and
\* a narrow one
CharImages == {Source("character", 1024, 1024), Source("character", 300, 900)}
Fonts == {"CalSans", "Geist"}

ShortName == <<"j", "o", "h", "n">>
ShortDesignation == <<"A", "I", " ", "&", " ", "b">>
PlainDesignation == <<"l", "e", "a", "d", "-", "d", "e", "v">>
\* 24 and 51 characters are wider than maxWidth, 63 and 101 scale below the floors
WideName == Repeat(<<"a", "l", "e", "x", " ">>, 24)
WideDesignation == Repeat(<<"l", "e", "a", "d", " ">>, 51)
LongName == Repeat(<<"a", "l", "e", "x", " ">>, 63)
LongDesignation == Repeat(<<"l", "e", "a", "d", " ">>, 101)

\* the (name, designation) pairs of a call; <<>> is an absent or empty string
TextInputs ==
    {<<<<>>, <<>>>>, <<ShortName, <<>>>>, <<<<>>, PlainDesignation>>,
     <<ShortName, ShortDesignation>>, <<ShortName, PlainDesignation>>,
     <<WideName, WideDesignation>>, <<LongName, LongDesignation>>}

VARIABLES
    isProduction,          \* process.env.NODE_ENV === 'production'
    assets,                \* public/background.png and public/layer.png
    fontFiles,             \* the font files that exist under public/
    fontsRegistered,       \* the module-level flag
    registerCalls,         \* how often each font file was passed to registerFont
    registeredFonts,       \* the fonts registerFont has registered in the process
    invocations,           \* how often mergeImages was called in this process
    localFiles,            \* timestamps of the files in public/final
    storage,               \* timestamps of the objects under final/ in the bucket
    pc,                    \* where the invocation of mergeImages stands
    req,                   \* its arguments
    dims,                  \* bgWidth, bgHeight, layerWidth, layerHeight
    charBuffer,            \* the resized character
    layerWithCharacter,
    finalCompositeLayers,
    canvasFailure,         \* "notrun" until the text block runs, then where the
                           \* canvas path threw ("none" when it did not)
    finalBuffer,
    persisted,             \* this invocation wrote its final image somewhere
    result,                \* the value mergeImages returned
    error,                 \* the error mergeImages threw
    attempts,              \* the awaited operations this invocation started, in order
    sizing,                \* the last evaluation of the auto-scaling computation
    firstRun,              \* the arguments and the output of the first invocation
    normalized,            \* the last evaluation of the text normalisation
    drawn,                 \* the last evaluation of drawTextWithKerning
    clock,                 \* Date.now()
    requests,              \* the requests the route is handling
    tmpGenerated,          \* /tmp/generated/generated-<timestamp>.png, by timestamp
    finalImages,           \* final-<timestamp>.png, by timestamp
    registrants,           \* the requests that ran the body of registerCanvasFonts
    post,                  \* the POST the route handler is answering
    ui                     \* the useState values of ImageGenerator and its pending reads

\* the state of the concurrent requests of the route
routeVars == <<clock, requests, tmpGenerated, finalImages, registrants>>

\* one POST followed step by step, and the state of the ImageGenerator component
callerVars == <<post, ui>>

vars ==
    <<isProduction, assets, fontFiles, fontsRegistered, registerCalls, registeredFonts,
      invocations,
      localFiles, storage, pc, req, dims, charBuffer, layerWithCharacter, finalCompositeLayers,
      canvasFailure, finalBuffer, persisted, result, error, attempts, sizing, firstRun,
      normalized, drawn, routeVars, callerVars>>

envVars == <<isProduction, assets, fontFiles>>

\* the variables the steps of a running invocation leave alone
otherVars == <<sizing, invocations, firstRun, normalized, drawn, routeVars, callerVars>>

\* the variables of mergeImages and of its process
pipelineVars ==
    <<isProduction, assets, fontFiles, fontsRegistered, registerCalls, registeredFonts,
      invocations,
      localFiles, storage, pc, req, dims, charBuffer, layerWithCharacter,
      finalCompositeLayers, canvasFailure, finalBuffer, persisted, result, error,
      attempts>>

NoReq == [generatedImage |-> NoImage, timestamp |-> 0, name |-> <<>>, designation |-> <<>>]
NoDims == [bgWidth |-> 0, bgHeight |-> 0, layerWidth |-> 0, layerHeight |-> 0]
NoResult == [kind |-> "none", file |-> 0]
NoError == [prefix |-> "", message |-> ""]
NoSizing ==
    [field |-> "none", text |-> <<>>, baseSize |-> 0, factor10 |-> 0, maxWidth |-> 0,
     floor |-> 0, fontSize |-> 0, canvasSize |-> 0, svgSize |-> 0]
NoRun ==
    [generatedImage |-> NoImage, name |-> <<>>, designation |-> <<>>,
     canvasFailure |-> "notrun", finalCompositeLayers |-> <<>>, finalBuffer |-> NoImage]
NoNormalized ==
    [field |-> "none", input |-> <<>>, text |-> <<>>, canvas |-> <<>>, svg |-> <<>>]

NoDrawn ==
    [field |-> "none", text |-> <<>>, x |-> 0, y |-> 0, fontSize |-> 0, face |-> "",
     letterSpacing |-> 0, totalWidth |-> 0, calls |-> <<>>]

\* a POST not yet received: nothing done, nothing answered
NoPost ==
    [pc |-> "idle", image |-> "none", name |-> <<>>, designation |-> <<>>, timestamp |-> 0,
     parsed |-> FALSE, effects |-> {}, failures |-> {}, thrown |-> "", responses |-> 0,
     status |-> 0, error |-> NoError, success |-> FALSE]

\* the initial values of the useState calls of ImageGenerator (lines 9-17);
\* files and images are numbered from 1, 0 is null
InitialUi ==
    [filled |-> FALSE, selectedFile |-> 0, uploadedImagePreview |-> 0, readers |-> {},
     generatedImage |-> 0, finalImage |-> 0, loading |-> FALSE, error |-> ""]

Requests == 1..NumRequests
Timestamps == 1..MaxTimestamp
NoPoster == [character |-> 0, text |-> 0]
NoRequest ==
    [pc |-> "idle", timestamp |-> 0, hasText |-> FALSE, character |-> 0,
     poster |-> NoPoster, finalImage |-> 0, status |-> 0]

Init ==
    /\ isProduction \in BOOLEAN
    /\ assets \in AssetInputs
    /\ fontFiles \in SUBSET Fonts
    /\ fontsRegistered = FALSE
    /\ registerCalls = [f \in Fonts |-> 0]
    /\ registeredFonts = {}
    /\ invocations = 0
    /\ localFiles = {}
    /\ storage = {}
    /\ pc = "idle"
    /\ req = NoReq
    /\ dims = NoDims
    /\ charBuffer = NoImage
    /\ layerWithCharacter = NoImage
    /\ finalCompositeLayers = <<>>
    /\ canvasFailure = "notrun"
    /\ finalBuffer = NoImage
    /\ persisted = FALSE
    /\ result = NoResult
    /\ error = NoError
    /\ attempts = <<>>
    /\ sizing = NoSizing
    /\ firstRun = NoRun
    /\ normalized = NoNormalized
    /\ drawn = NoDrawn
    /\ clock = 1
    /\ requests = [r \in Requests |-> NoRequest]
    /\ tmpGenerated = [ts \in Timestamps |-> 0]
    /\ finalImages = [ts \in Timestamps |-> NoPoster]
    /\ registrants = {}
    /\ post = NoPost
    /\ ui = InitialUi

(***************************************************************************)
(* registerCanvasFonts and the text overlay block of mergeImages            *)
(* (lines 110-235): synchronous code, so one step of an action.            *)
(***************************************************************************)
CanvasFailPoints ==
    {"none", "registerCalSans", "registerGeist", "createCanvas", "draw", "toBuffer"}

\* the call that throws at this point is made in the current state
CanThrowAt(point) ==
    CASE point = "registerCalSans" -> ~fontsRegistered /\ "CalSans" \in fontFiles
      [] point = "registerGeist" -> ~fontsRegistered /\ "Geist" \in fontFiles
      [] OTHER -> TRUE

\* mutant: registerFont is called without the existsSync check
RegisterCanvasFontsUnchecked(point) ==
    IF fontsRegistered
    THEN [fontsRegistered |-> TRUE, registerCalls |-> registerCalls,
          registeredFonts |-> registeredFonts, threw |-> FALSE]
    ELSE [fontsRegistered |-> point \notin {"registerCalSans", "registerGeist"},
          registerCalls |-> [f \in Fonts |-> registerCalls[f] + 1],
          registeredFonts |-> registeredFonts \cup fontFiles,
          threw |-> point \in {"registerCalSans", "registerGeist"}]

\* registerCanvasFonts(): the flag, the calls of registerFont and the fonts
\* registered after it ran, and whether it threw; point is the call that
\* throws, if any
RegisterCanvasFonts(point) ==
    IF fontsRegistered
    THEN [fontsRegistered |-> TRUE, registerCalls |-> registerCalls,
          registeredFonts |-> registeredFonts, threw |-> FALSE]
    ELSE
        LET calls1 == IF "CalSans" \in fontFiles
                      THEN [registerCalls EXCEPT !["CalSans"] = @ + 1]
                      ELSE registerCalls
            threw1 == "CalSans" \in fontFiles /\ point = "registerCalSans"
            fonts1 == IF "CalSans" \in fontFiles /\ ~threw1
                      THEN registeredFonts \cup {"CalSans"}
                      ELSE registeredFonts
            calls2 == IF "Geist" \in fontFiles
                      THEN [calls1 EXCEPT !["Geist"] = @ + 1]
                      ELSE calls1
            threw2 == "Geist" \in fontFiles /\ point = "registerGeist"
            fonts2 == IF "Geist" \in fontFiles /\ ~threw2
                      THEN fonts1 \cup {"Geist"}
                      ELSE fonts1
        IN  IF threw1
            THEN [fontsRegistered |-> FALSE, registerCalls |-> calls1,
                  registeredFonts |-> fonts1, threw |-> TRUE]
            ELSE IF threw2
            THEN [fontsRegistered |-> FALSE, registerCalls |-> calls2,
                  registeredFonts |-> fonts2, threw |-> TRUE]
            ELSE [fontsRegistered |-> TRUE, registerCalls |-> calls2,
                  registeredFonts |-> fonts2, threw |-> FALSE]

\* the face the canvas draws with for the font string `"<family>", Arial,
\* sans-serif`: the family when the process has registered it, else the
\* first substitute of the list
CanvasFace(font, family, registered) ==
    IF font \in registered THEN family ELSE "Arial, sans-serif"

\* mutant: the canvas is created before the fonts are registered, so it
\* draws with the fonts former calls have registered
CanvasTextBeforeRegistration(nameText, desText, canvasWidth, canvasHeight) ==
    [backend |-> "canvas",
     name |-> IF nameText # <<>>
              THEN [text |-> nameText, x |-> canvasWidth \div 2, y |-> NameY(canvasHeight),
                    fontSize |-> CanvasNameFontSize(nameText), color |-> "#000000",
                    weight |-> 600, family |-> "Cal Sans",
                    face |-> CanvasFace("CalSans", "Cal Sans", registeredFonts),
                    anchor |-> "middle", baseline |-> "middle", letterSpacing |-> 0]
              ELSE NoItem,
     des |-> IF desText # <<>>
             THEN [text |-> desText, x |-> canvasWidth \div 2, y |-> DesY(canvasHeight),
                   fontSize |-> CanvasDesFontSize(desText), color |-> "#222222",
                   weight |-> 400, family |-> "Geist",
                   face |-> CanvasFace("Geist", "Geist", registeredFonts),
                   anchor |-> "middle", baseline |-> "middle",
                   letterSpacing |-> 0 - 4 * CanvasDesFontSize(desText)]
             ELSE NoItem]

\* what the canvas path draws after registerCanvasFonts() returned:
\* drawTextWithKerning sets textAlign 'left' and starts at x minus half the
\* measured width, so each text is centred on x = floor(canvasWidth / 2),
\* with textBaseline 'middle'; letterSpacing is in hundredths of a pixel
CanvasText(nameText, desText, canvasWidth, canvasHeight) ==
    [backend |-> "canvas",
     name |-> IF nameText # <<>>
              THEN [text |-> nameText, x |-> canvasWidth \div 2, y |-> NameY(canvasHeight),
                    fontSize |-> CanvasNameFontSize(nameText), color |-> "#000000",
                    weight |-> 600, family |-> "Cal Sans",
                    face |-> CanvasFace("CalSans", "Cal Sans",
                                        RegisterCanvasFonts("none").registeredFonts),
                    anchor |-> "middle", baseline |-> "middle", letterSpacing |-> 0]
              ELSE NoItem,
     des |-> IF desText # <<>>
             THEN [text |-> desText, x |-> canvasWidth \div 2, y |-> DesY(canvasHeight),
                   fontSize |-> CanvasDesFontSize(desText), color |-> "#222222",
                   weight |-> 400, family |-> "Geist",
                   face |-> CanvasFace("Geist", "Geist",
                                       RegisterCanvasFonts("none").registeredFonts),
                   anchor |-> "middle", baseline |-> "middle",
                   letterSpacing |-> 0 - 4 * CanvasDesFontSize(desText)]
             ELSE NoItem]

\* mutant: the markup leaves out the letter-spacing attribute
SvgTextNoLetterSpacing(nameText, desText, svgWidth, svgHeight) ==
    [backend |-> "svg",
     name |-> IF nameText # <<>>
              THEN [text |-> nameText, x |-> svgWidth \div 2, y |-> NameY(svgHeight),
                    fontSize |-> SvgNameFontSize(nameText), color |-> "#000000",
                    weight |-> 600, family |-> "Cal Sans",
                    face |-> "Cal Sans, Arial, sans-serif",
                    anchor |-> "middle", baseline |-> "middle", letterSpacing |-> 0]
              ELSE NoItem,
     des |-> IF desText # <<>>
             THEN [text |-> desText, x |-> svgWidth \div 2, y |-> DesY(svgHeight),
                   fontSize |-> SvgDesFontSize(desText), color |-> "#222222",
                   weight |-> 400, family |-> "Geist",
                   face |-> "Geist, Arial, sans-serif",
                   anchor |-> "middle", baseline |-> "middle", letterSpacing |-> 0]
             ELSE NoItem]

\* what the SVG markup describes: text-anchor middle and dominant-baseline
\* middle at x = floor(svgWidth / 2), letter-spacing -0.04em, that is -4% of
\* the designation's font size; the renderer of the markup resolves the
\* font-family list itself
SvgText(nameText, desText, svgWidth, svgHeight) ==
    [backend |-> "svg",
     name |-> IF nameText # <<>>
              THEN [text |-> nameText, x |-> svgWidth \div 2, y |-> NameY(svgHeight),
                    fontSize |-> SvgNameFontSize(nameText), color |-> "#000000",
                    weight |-> 600, family |-> "Cal Sans",
                    face |-> "Cal Sans, Arial, sans-serif",
                    anchor |-> "middle", baseline |-> "middle", letterSpacing |-> 0]
              ELSE NoItem,
     des |-> IF desText # <<>>
             THEN [text |-> desText, x |-> svgWidth \div 2, y |-> DesY(svgHeight),
                   fontSize |-> SvgDesFontSize(desText), color |-> "#222222",
                   weight |-> 400, family |-> "Geist",
                   face |-> "Geist, Arial, sans-serif",
                   anchor |-> "middle", baseline |-> "middle",
                   letterSpacing |-> 0 - 4 * SvgDesFontSize(desText)]
             ELSE NoItem]

\* the texts are interpolated into the markup unescaped: a text holding
\* '&' or '<' makes the document one that sharp cannot decode
SvgWellFormed(text) == \A i \in 1..Len(text) : text[i] \notin {"&", "<"}

Layer(input, blend, top, left, gravity) ==
    [input |-> input, blend |-> blend, top |-> top, left |-> left, gravity |-> gravity]

\* canvas.toBuffer('image/png') pushed with top 0, left 0, blend 'over'
CanvasLayer(nameText, desText, w, h) ==
    Layer([width |-> w, height |-> h, stack |-> <<"text">>,
           text |-> CanvasText(nameText, desText, w, h), valid |-> TRUE, fit |-> NoFit],
          "over", 0, 0, "none")

\* Buffer.from(svgContent) pushed with top 0, left 0, blend 'over'
SvgLayer(nameText, desText, w, h) ==
    Layer([width |-> w, height |-> h, stack |-> <<"text">>,
           text |-> SvgText(nameText, desText, w, h),
           valid |-> SvgWellFormed(nameText) /\ SvgWellFormed(desText), fit |-> NoFit],
          "over", 0, 0, "none")

\* the try/catch of lines 139-234: the canvas layer is pushed as the last
\* statement of the try block, the catch block pushes the SVG layer
TextLayer(point, nameText, desText, w, h) ==
    IF point = "none"
    THEN CanvasLayer(nameText, desText, w, h)
    ELSE SvgLayer(nameText, desText, w, h)

\* mutant: the empty string counts as a text
TruthyAlways(s) == TRUE

\* JavaScript truthiness of an optional string
Truthy(s) == Len(s) > 0

\* mutant: the catch block swallows the canvas error and pushes nothing
TextOverlayNoFallback(point, layers) ==
    IF (Len(req.name) > 0 \/ Len(req.designation) > 0) /\ point = "none"
    THEN Append(layers,
                CanvasLayer(NormalizeName(req.name), NormalizeDesignation(req.designation),
                            dims.bgWidth, dims.bgHeight))
    ELSE layers

\* mutant: the canvas layer is pushed before canvas.toBuffer() is called, so
\* a throwing toBuffer leaves it in the list next to the SVG layer
TextOverlayPushEarly(point, layers) ==
    IF Truthy(req.name) \/ Truthy(req.designation)
    THEN IF point = "toBuffer"
         THEN layers \o <<CanvasLayer(NormalizeName(req.name),
                                      NormalizeDesignation(req.designation),
                                      dims.bgWidth, dims.bgHeight),
                          SvgLayer(NormalizeName(req.name),
                                   NormalizeDesignation(req.designation),
                                   dims.bgWidth, dims.bgHeight)>>
         ELSE Append(layers,
                     TextLayer(point, NormalizeName(req.name),
                               NormalizeDesignation(req.designation),
                               dims.bgWidth, dims.bgHeight))
    ELSE layers

\* the layers after the if (name || designation) block
TextOverlay(point, layers) ==
    IF Truthy(req.name) \/ Truthy(req.designation)
    THEN Append(layers,
                TextLayer(point, NormalizeName(req.name),
                          NormalizeDesignation(req.designation),
                          dims.bgWidth, dims.bgHeight))
    ELSE layers

(***************************************************************************)
(* mergeImages.                                                            *)
(***************************************************************************)
\* mutant: the error is rethrown as it came
ThrowUnwrapped(message) ==
    /\ pc' = "failed"
    /\ error' = [prefix |-> "", message |-> message]

\* the catch of lines 284-287: every error leaves as one wrapped error
Throw(message) ==
    /\ pc' = "failed"
    /\ error' = [prefix |-> "Failed to merge images: ", message |-> message]

\* a call of mergeImages(generatedImagePath, timestamp, name, designation)
Start ==
    /\ pc \in {"idle", "returned", "failed"}
    /\ invocations < MaxInvocations
    /\ invocations' = invocations + 1
    /\ \E img \in CharImages, ts \in 1..MaxTimestamp, t \in TextInputs :
        req' = [generatedImage |-> img, timestamp |-> ts, name |-> t[1],
                designation |-> t[2]]
    /\ pc' = "mkdir"
    /\ dims' = NoDims
    /\ charBuffer' = NoImage
    /\ layerWithCharacter' = NoImage
    /\ finalCompositeLayers' = <<>>
    /\ canvasFailure' = "notrun"
    /\ finalBuffer' = NoImage
    /\ persisted' = FALSE
    /\ result' = NoResult
    /\ error' = NoError
    /\ attempts' = <<>>
    /\ UNCHANGED <<envVars, sizing, firstRun, normalized, drawn, routeVars, callerVars>>
    /\ UNCHANGED <<fontsRegistered, registerCalls, registeredFonts, localFiles, storage>>

\* await mkdir(outputDir): its failure is swallowed
Mkdir ==
    /\ pc = "mkdir"
    /\ attempts' = attempts \o <<"mkdir">>
    /\ pc' = "metadata"
    /\ UNCHANGED <<envVars, otherVars>>
    /\ UNCHANGED <<persisted, fontsRegistered, registerCalls, registeredFonts, localFiles,
                   storage, req, dims,
                   charBuffer, layerWithCharacter, finalCompositeLayers, canvasFailure,
                   finalBuffer, result, error>>

\* mutant: an unreadable asset yields empty metadata instead of a rejection
MetadataAlwaysResolves == TRUE

\* Promise.all([sharp(backgroundPath).metadata(), sharp(layerPath).metadata()])
\* resolves when both assets can be read and rejects otherwise
MetadataResolves == assets.background.readable /\ assets.layer.readable

\* await Promise.all([...metadata()]); then lines 65-68 set the sizes
Metadata ==
    /\ pc = "metadata"
    /\ attempts' = attempts \o <<"backgroundMetadata", "layerMetadata">>
    /\ IF MetadataResolves
       THEN /\ dims' = [bgWidth |-> OrDefault(assets.background.width, defaultBgWidth),
                        bgHeight |-> OrDefault(assets.background.height, defaultBgHeight),
                        layerWidth |-> OrDefault(assets.layer.width, defaultLayerWidth),
                        layerHeight |-> OrDefault(assets.layer.height, defaultLayerHeight)]
            /\ pc' = "charResize"
            /\ UNCHANGED error
       ELSE /\ Throw("metadata")
            /\ UNCHANGED dims
    /\ UNCHANGED <<envVars, otherVars>>
    /\ UNCHANGED <<persisted, fontsRegistered, registerCalls, registeredFonts, localFiles,
                   storage, req,
                   charBuffer, layerWithCharacter, finalCompositeLayers, canvasFailure,
                   finalBuffer, result>>

\* await sharp(generatedImagePath).resize(charWidth, charHeight,
\*                                        {fit: 'cover', position: 'top'}).toBuffer()
CharResize ==
    /\ pc = "charResize"
    /\ attempts' = attempts \o <<"charResize">>
    /\ \E ok \in BOOLEAN :
        IF ok
        THEN /\ charBuffer' = ResizeCover(req.generatedImage, dims.layerWidth,
                                          CharHeight(dims.layerHeight), "top")
             /\ pc' = "layerComposite"
             /\ UNCHANGED error
        ELSE /\ Throw("charResize")
             /\ UNCHANGED charBuffer
    /\ UNCHANGED <<envVars, otherVars>>
    /\ UNCHANGED <<persisted, fontsRegistered, registerCalls, registeredFonts, localFiles,
                   storage, req, dims,
                   layerWithCharacter, finalCompositeLayers, canvasFailure, finalBuffer,
                   result>>

\* mutant: the character is drawn above the frame
CharacterLayerOver(input) == Layer(input, "over", charTopOffset, charLeftOffset, "none")

\* the one overlay of lines 82-94
CharacterLayer(input) == Layer(input, "dest-over", charTopOffset, charLeftOffset, "none")

\* await sharp(layerPath).resize(layerWidth, layerHeight).composite([...]).toBuffer()
LayerComposite ==
    /\ pc = "layerComposite"
    /\ attempts' = attempts \o <<"layerComposite">>
    /\ LET frame == Resize(Source("frame", assets.layer.width, assets.layer.height),
                           dims.layerWidth, dims.layerHeight)
           overlays == <<CharacterLayer(charBuffer)>>
       IN  \E ok \in BOOLEAN :
            IF ok /\ CompositeOk(frame, overlays)
            THEN /\ layerWithCharacter' = Composite(frame, overlays)
                 /\ pc' = "layerResize"
                 /\ UNCHANGED error
            ELSE /\ Throw("layerComposite")
                 /\ UNCHANGED layerWithCharacter
    /\ UNCHANGED <<envVars, otherVars>>
    /\ UNCHANGED <<persisted, fontsRegistered, registerCalls, registeredFonts, localFiles,
                   storage, req, dims,
                   charBuffer, finalCompositeLayers, canvasFailure, finalBuffer, result>>

\* the first entry of finalCompositeLayers (lines 98-108)
FrameLayer(input) == Layer(input, "over", 0, 0, "center")

\* await sharp(layerWithCharacter).resize(bgWidth, bgHeight, {fit: 'cover'}).toBuffer(),
\* then the synchronous lines 98-235: the layer list and the text overlay
LayerResize ==
    /\ pc = "layerResize"
    /\ attempts' = attempts \o <<"layerResize">>
    /\ \E ok \in BOOLEAN :
        IF ok
        THEN LET layers == <<FrameLayer(Resize(layerWithCharacter, dims.bgWidth,
                                                dims.bgHeight))>>
             IN  IF Truthy(req.name) \/ Truthy(req.designation)
                 THEN \E point \in {p \in CanvasFailPoints : CanThrowAt(p)} :
                        /\ fontsRegistered' = RegisterCanvasFonts(point).fontsRegistered
                        /\ registerCalls' = RegisterCanvasFonts(point).registerCalls
                        /\ registeredFonts' = RegisterCanvasFonts(point).registeredFonts
                        /\ canvasFailure' = point
                        /\ finalCompositeLayers' = TextOverlay(point, layers)
                        /\ pc' = "finalComposite"
                        /\ UNCHANGED error
                 ELSE /\ finalCompositeLayers' = TextOverlay("none", layers)
                      /\ pc' = "finalComposite"
                      /\ UNCHANGED <<fontsRegistered, registerCalls, registeredFonts,
                                     canvasFailure, error>>
        ELSE /\ Throw("layerResize")
             /\ UNCHANGED <<fontsRegistered, registerCalls, registeredFonts, canvasFailure,
                            finalCompositeLayers>>
    /\ UNCHANGED <<envVars, otherVars>>
    /\ UNCHANGED <<persisted, localFiles, storage, req, dims, charBuffer, layerWithCharacter,
                   finalBuffer, result>>

\* await sharp(backgroundPath).resize(bgWidth, bgHeight)
\*         .composite(finalCompositeLayers).png().toBuffer()
FinalComposite ==
    /\ pc = "finalComposite"
    /\ attempts' = attempts \o <<"finalComposite">>
    /\ LET background == Resize(Source("background", assets.background.width,
                                       assets.background.height),
                                dims.bgWidth, dims.bgHeight)
       IN  \E ok \in BOOLEAN :
            IF ok /\ CompositeOk(background, finalCompositeLayers)
            THEN /\ finalBuffer' = Composite(background, finalCompositeLayers)
                 /\ pc' = IF isProduction THEN "upload" ELSE "writeFile"
                 /\ UNCHANGED error
            ELSE /\ Throw("finalComposite")
                 /\ UNCHANGED finalBuffer
    /\ UNCHANGED <<envVars, otherVars>>
    /\ UNCHANGED <<persisted, fontsRegistered, registerCalls, registeredFonts, localFiles,
                   storage, req, dims,
                   charBuffer, layerWithCharacter, finalCompositeLayers, canvasFailure,
                   result>>

\* development: await writeFile(join(outputDir, outputFilename), finalBuffer);
\* its failure is logged only, and `/final/${outputFilename}` is returned
WriteFile ==
    /\ pc = "writeFile"
    /\ attempts' = attempts \o <<"writeFile">>
    /\ \E ok \in BOOLEAN :
        /\ localFiles' = IF ok THEN localFiles \cup {req.timestamp} ELSE localFiles
        /\ persisted' = ok
    /\ result' = [kind |-> "path", file |-> req.timestamp]
    /\ pc' = "returned"
    /\ UNCHANGED <<envVars, otherVars>>
    /\ UNCHANGED <<fontsRegistered, registerCalls, registeredFonts, storage, req, dims, charBuffer,
                   layerWithCharacter, finalCompositeLayers, canvasFailure, finalBuffer,
                   error>>

\* mutant: a failed upload is tried a second time before the error is thrown
UploadWithRetry ==
    /\ pc = "upload"
    /\ attempts' = attempts \o <<"upload">>
    /\ \E ok \in BOOLEAN :
        IF ok
        THEN /\ storage' = storage \cup {req.timestamp}
             /\ persisted' = TRUE
             /\ result' = [kind |-> "url", file |-> req.timestamp]
             /\ pc' = "returned"
             /\ UNCHANGED error
        ELSE /\ IF attempts[Len(attempts)] = "upload"
                THEN Throw("Failed to upload final image")
                ELSE UNCHANGED <<pc, error>>
             /\ UNCHANGED <<storage, persisted, result>>
    /\ UNCHANGED <<envVars, otherVars>>
    /\ UNCHANGED <<fontsRegistered, registerCalls, registeredFonts, localFiles, req, dims,
                   charBuffer, layerWithCharacter, finalCompositeLayers, canvasFailure,
                   finalBuffer>>

\* production: await supabase.storage.from('generated-images').upload(...);
\* an uploadError is thrown, otherwise the public URL is returned
Upload ==
    /\ pc = "upload"
    /\ attempts' = attempts \o <<"upload">>
    /\ \E ok \in BOOLEAN :
        IF ok
        THEN /\ storage' = storage \cup {req.timestamp}
             /\ persisted' = TRUE
             /\ result' = [kind |-> "url", file |-> req.timestamp]
             /\ pc' = "returned"
             /\ UNCHANGED error
        ELSE /\ Throw("Failed to upload final image")
             /\ UNCHANGED <<storage, persisted, result>>
    /\ UNCHANGED <<envVars, otherVars>>
    /\ UNCHANGED <<fontsRegistered, registerCalls, registeredFonts, localFiles, req, dims,
                   charBuffer, layerWithCharacter, finalCompositeLayers, canvasFailure,
                   finalBuffer>>

Next ==
    \/ Start
    \/ Mkdir
    \/ Metadata
    \/ CharResize
    \/ LayerComposite
    \/ LayerResize
    \/ FinalComposite
    \/ WriteFile
    \/ Upload

Spec == Init /\ [][Next]_vars

(***************************************************************************)
(* Concurrent requests: POST of src/app/api/generate/route.ts calling      *)
(* mergeImages.  Each request is a chain of awaits; an action is the code  *)
(* that runs from one await to a later one, and consecutive steps that     *)
(* touch nothing but the request's own locals and the read-only assets are *)
(* one action.  The files are kept by the timestamp in their name, an      *)
(* image by the request it was generated for, a poster by the requests     *)
(* whose character image and whose texts it shows.                         *)
(***************************************************************************)
\* the variables of the single invocation of Spec
mergeVars ==
    <<invocations, localFiles, storage, pc, req, dims, charBuffer, layerWithCharacter,
      finalCompositeLayers, canvasFailure, finalBuffer, persisted, result, error,
      attempts>>
fontVars == <<fontsRegistered, registerCalls, registeredFonts>>
checkVars == <<sizing, firstRun, normalized, drawn, callerVars>>

\* the catch of POST (lines 213-225): the response has status 500
Failed(request) == [request EXCEPT !.pc = "responded", !.status = 500]

\* Date.now() moves on to the next millisecond
Tick ==
    /\ clock < MaxTimestamp
    /\ clock' = clock + 1
    /\ UNCHANGED <<envVars, mergeVars, fontVars, checkVars>>
    /\ UNCHANGED <<requests, tmpGenerated, finalImages, registrants>>

\* POST lines 11-39: without an image the response is 400; otherwise
\* timestamp = Date.now() names the files of the request
Receive(r) ==
    /\ requests[r].pc = "idle"
    /\ \E image \in BOOLEAN, hasText \in BOOLEAN :
        requests' = [requests EXCEPT ![r] =
            IF image
            THEN [@ EXCEPT !.pc = "generate", !.timestamp = clock, !.hasText = hasText]
            ELSE [@ EXCEPT !.pc = "responded", !.status = 400]]
    /\ UNCHANGED <<envVars, mergeVars, fontVars, checkVars>>
    /\ UNCHANGED <<clock, tmpGenerated, finalImages, registrants>>

\* POST lines 41-154: the uploads and the call of the image model, whose
\* failure is thrown; then writeFile('/tmp/generated/generated-<timestamp>.png')
Generate(r) ==
    /\ requests[r].pc = "generate"
    /\ \E ok \in BOOLEAN :
        IF ok
        THEN /\ tmpGenerated' = [tmpGenerated EXCEPT ![requests[r].timestamp] = r]
             /\ requests' = [requests EXCEPT ![r].pc = "merge"]
        ELSE /\ requests' = [requests EXCEPT ![r] = Failed(@)]
             /\ UNCHANGED tmpGenerated
    /\ UNCHANGED <<envVars, mergeVars, fontVars, checkVars>>
    /\ UNCHANGED <<clock, finalImages, registrants>>

\* POST lines 156-187 and mergeImages lines 36-108: the metadata of the
\* assets, then sharp(generatedImagePath) reads the file of the timestamp
MergeRead(r) ==
    /\ requests[r].pc = "merge"
    /\ \E ok \in BOOLEAN :
        requests' = [requests EXCEPT ![r] =
            IF ok /\ MetadataResolves
            THEN [@ EXCEPT !.pc = "text", !.character = tmpGenerated[requests[r].timestamp]]
            ELSE Failed(@)]
    /\ UNCHANGED <<envVars, mergeVars, fontVars, checkVars>>
    /\ UNCHANGED <<clock, tmpGenerated, finalImages, registrants>>

\* mergeImages lines 110-241: the text block, which runs registerCanvasFonts
\* without an await in it, then the final composite into the request's buffer
MergeText(r) ==
    /\ requests[r].pc = "text"
    /\ IF requests[r].hasText
       THEN \E point \in {p \in CanvasFailPoints : CanThrowAt(p)} :
                /\ fontsRegistered' = RegisterCanvasFonts(point).fontsRegistered
                /\ registerCalls' = RegisterCanvasFonts(point).registerCalls
                /\ registeredFonts' = RegisterCanvasFonts(point).registeredFonts
                /\ registrants' = IF fontsRegistered THEN registrants
                                  ELSE registrants \cup {r}
       ELSE UNCHANGED <<fontVars, registrants>>
    /\ \E ok \in BOOLEAN :
        requests' = [requests EXCEPT ![r] =
            IF ok
            THEN [@ EXCEPT !.pc = "persist",
                           !.poster = [character |-> requests[r].character,
                                       text |-> IF requests[r].hasText THEN r ELSE 0]]
            ELSE Failed(@)]
    /\ UNCHANGED <<envVars, mergeVars, checkVars>>
    /\ UNCHANGED <<clock, tmpGenerated, finalImages>>

\* mergeImages lines 243-283: final-<timestamp>.png is written to public/final
\* (a failure is logged only) or uploaded with upsert (a failure is thrown),
\* and its path or URL returned
MergePersist(r) ==
    /\ requests[r].pc = "persist"
    /\ \E ok \in BOOLEAN :
        /\ finalImages' = IF ok
                          THEN [finalImages EXCEPT ![requests[r].timestamp] =
                                    requests[r].poster]
                          ELSE finalImages
        /\ requests' = [requests EXCEPT ![r] =
            IF ok \/ ~isProduction
            THEN [@ EXCEPT !.pc = "respond", !.finalImage = requests[r].timestamp]
            ELSE Failed(@)]
    /\ UNCHANGED <<envVars, mergeVars, fontVars, checkVars>>
    /\ UNCHANGED <<clock, tmpGenerated, registrants>>

\* POST lines 189-212: the row of the generation, then the response with finalImage
Respond(r) ==
    /\ requests[r].pc = "respond"
    /\ requests' = [requests EXCEPT ![r].pc = "responded", ![r].status = 200]
    /\ UNCHANGED <<envVars, mergeVars, fontVars, checkVars>>
    /\ UNCHANGED <<clock, tmpGenerated, finalImages, registrants>>

NextConc ==
    \/ Tick
    \/ \E r \in Requests : Receive(r)
    \/ \E r \in Requests : Generate(r)
    \/ \E r \in Requests : MergeRead(r)
    \/ \E r \in Requests : MergeText(r)
    \/ \E r \in Requests : MergePersist(r)
    \/ \E r \in Requests : Respond(r)

SpecConc == Init /\ [][NextConc]_vars

(***************************************************************************)
(* One POST of src/app/api/generate/route.ts followed from the request to  *)
(* the response, with the invocation of mergeImages it makes run by the    *)
(* actions of Spec.  An action is the code from one await to the next.     *)
(* post.effects collects what the handler did outside its own locals,      *)
(* post.failures the failures it only logged, post.thrown the failure that *)
(* reached its catch.  A storage or database call that fails resolves with *)
(* an error object, as the handler expects (lines 63, 176, 200).           *)
(***************************************************************************)
\* the name and designation fields of the form
RouteTexts ==
    {<<<<>>, <<>>>>, <<ShortName, ShortDesignation>>, <<ShortName, PlainDesignation>>}

\* return NextResponse.json(body, {status})
Answer(p, status, message, success) ==
    [p EXCEPT !.pc = "responded", !.status = status,
              !.error = [prefix |-> "", message |-> message],
              !.success = success, !.responses = @ + 1]

\* the catch of lines 213-225: status 500 with the message of the error
Catch(p, failure, message) ==
    Answer([p EXCEPT !.thrown = failure], 500, message, FALSE)

\* what a step of the handler leaves alone
RouteUnchanged ==
    UNCHANGED <<pipelineVars, sizing, firstRun, normalized, drawn, routeVars, ui>>

\* mutant: the handler goes on without looking at the image field
PostReceiveUnvalidated ==
    /\ post.pc = "idle"
    /\ \E parsed \in BOOLEAN, image \in {"none", "text", "file"}, t \in RouteTexts :
        post' = IF ~parsed
                THEN Catch(post, "formData", "formData")
                ELSE [post EXCEPT !.pc = "arrayBuffer", !.parsed = TRUE, !.image = image,
                                  !.name = t[1], !.designation = t[2]]
    /\ RouteUnchanged

\* lines 12-24: the form is read; a missing (or empty) image field is
\* answered with 400, a body that is no form data is thrown by formData()
PostReceive ==
    /\ post.pc = "idle"
    /\ \E parsed \in BOOLEAN, image \in {"none", "text", "file"}, t \in RouteTexts :
        post' = IF ~parsed
                THEN Catch(post, "formData", "formData")
                ELSE IF image = "none"
                     THEN Answer([post EXCEPT !.parsed = TRUE, !.image = image,
                                              !.name = t[1], !.designation = t[2]],
                                 400, "No image provided", FALSE)
                     ELSE [post EXCEPT !.pc = "arrayBuffer", !.parsed = TRUE,
                                       !.image = image, !.name = t[1],
                                       !.designation = t[2]]
    /\ RouteUnchanged

\* lines 27-30: await image.arrayBuffer(), which a text field does not have;
\* then timestamp = Date.now()
PostArrayBuffer ==
    /\ post.pc = "arrayBuffer"
    /\ \E ok \in BOOLEAN :
        post' = IF ok /\ post.image = "file"
                THEN [post EXCEPT !.pc = "tmpUpload", !.timestamp = clock]
                ELSE Catch(post, "arrayBuffer", "arrayBuffer")
    /\ RouteUnchanged

\* lines 37-39: mkdir (its failure swallowed) and writeFile to /tmp/uploads
PostTmpUpload ==
    /\ post.pc = "tmpUpload"
    /\ \E ok \in BOOLEAN :
        post' = IF ok
                THEN [post EXCEPT !.pc = IF isProduction THEN "inputUpload"
                                         ELSE "publicUpload",
                                  !.effects = @ \cup {"tmpUpload"}]
                ELSE Catch(post, "tmpUpload", "writeFile")
    /\ RouteUnchanged

\* lines 43-50, development only: the copy in public/uploads; a failure is logged
PostPublicUpload ==
    /\ post.pc = "publicUpload"
    /\ \E ok \in BOOLEAN :
        post' = IF ok
                THEN [post EXCEPT !.pc = "inputUpload", !.effects = @ \cup {"publicUpload"}]
                ELSE [post EXCEPT !.pc = "inputUpload", !.failures = @ \cup {"publicUpload"}]
    /\ RouteUnchanged

\* mutant: an uploadError of the input image is thrown
PostInputUploadThrows ==
    /\ post.pc = "inputUpload"
    /\ \E ok \in BOOLEAN :
        post' = IF ok
                THEN [post EXCEPT !.pc = "resize", !.effects = @ \cup {"inputUpload"}]
                ELSE Catch(post, "inputUpload", "inputUpload")
    /\ RouteUnchanged

\* lines 52-70: the input image is uploaded to storage; an uploadError is logged
PostInputUpload ==
    /\ post.pc = "inputUpload"
    /\ \E ok \in BOOLEAN :
        post' = IF ok
                THEN [post EXCEPT !.pc = "resize", !.effects = @ \cup {"inputUpload"}]
                ELSE [post EXCEPT !.pc = "resize", !.failures = @ \cup {"inputUpload"}]
    /\ RouteUnchanged

\* lines 74-80: the input image is resized for the image model
PostResize ==
    /\ post.pc = "resize"
    /\ \E ok \in BOOLEAN :
        post' = IF ok
                THEN [post EXCEPT !.pc = "callAI"]
                ELSE Catch(post, "resize", "resize")
    /\ RouteUnchanged

\* the ways lines 89-135 can go
AIOutcomes ==
    {"noKey", "fetchRejects", "errorStatus", "malformed", "noImage", "dataUrl", "httpUrl"}

\* lines 89-135: without OPENROUTER_API_KEY an error is thrown before the
\* call; a rejected fetch, a status that is not ok, a body without choices
\* and a message without an image are thrown after it
PostCallAI ==
    /\ post.pc = "callAI"
    /\ \E outcome \in AIOutcomes :
        post' =
            CASE outcome = "noKey" ->
                    Catch(post, "noKey", "OPENROUTER_API_KEY not configured")
              [] outcome = "fetchRejects" ->
                    Catch([post EXCEPT !.effects = @ \cup {"aiCall"}], "aiFetch", "fetch")
              [] outcome = "errorStatus" ->
                    Catch([post EXCEPT !.effects = @ \cup {"aiCall"}], "aiStatus",
                          "OpenRouter Error")
              [] outcome = "malformed" ->
                    Catch([post EXCEPT !.effects = @ \cup {"aiCall"}], "aiBody", "TypeError")
              [] outcome = "noImage" ->
                    Catch([post EXCEPT !.effects = @ \cup {"aiCall"}], "aiNoImage",
                          "No image returned from AI")
              [] outcome = "dataUrl" ->
                    [post EXCEPT !.pc = "tmpGenerated", !.effects = @ \cup {"aiCall"}]
              [] OTHER ->
                    [post EXCEPT !.pc = "fetchImage", !.effects = @ \cup {"aiCall"}]
    /\ RouteUnchanged

\* lines 142-143: an image given by URL is fetched
PostFetchImage ==
    /\ post.pc = "fetchImage"
    /\ \E ok \in BOOLEAN :
        post' = IF ok
                THEN [post EXCEPT !.pc = "tmpGenerated"]
                ELSE Catch(post, "fetchImage", "fetch")
    /\ RouteUnchanged

\* lines 147-154: writeFile('/tmp/generated/generated-<timestamp>.png')
PostTmpGenerated ==
    /\ post.pc = "tmpGenerated"
    /\ \E ok \in BOOLEAN :
        post' = IF ok
                THEN [post EXCEPT !.pc = IF isProduction THEN "generatedUpload"
                                         ELSE "publicGenerated",
                                  !.effects = @ \cup {"tmpGenerated"}]
                ELSE Catch(post, "tmpGenerated", "writeFile")
    /\ RouteUnchanged

\* lines 157-165, development only: the copy in public/generated
PostPublicGenerated ==
    /\ post.pc = "publicGenerated"
    /\ \E ok \in BOOLEAN :
        post' = IF ok
                THEN [post EXCEPT !.pc = "generatedUpload",
                                  !.effects = @ \cup {"publicGenerated"}]
                ELSE [post EXCEPT !.pc = "generatedUpload",
                                  !.failures = @ \cup {"publicGenerated"}]
    /\ RouteUnchanged

\* lines 169-183: the generated image is uploaded; a genError is logged
PostGeneratedUpload ==
    /\ post.pc = "generatedUpload"
    /\ \E ok \in BOOLEAN :
        post' = IF ok
                THEN [post EXCEPT !.pc = "merge", !.effects = @ \cup {"generatedUpload"}]
                ELSE [post EXCEPT !.pc = "merge", !.failures = @ \cup {"generatedUpload"}]
    /\ RouteUnchanged

\* line 187: mergeImages(tempGeneratedFile, timestamp.toString(), name, designation)
PostMerge ==
    /\ post.pc = "merge"
    /\ pc = "idle"
    /\ post' = [post EXCEPT !.pc = "merging", !.effects = @ \cup {"mergeImages"}]
    /\ invocations' = invocations + 1
    /\ req' = [generatedImage |-> Source("character", 1024, 1024),
               timestamp |-> post.timestamp, name |-> post.name,
               designation |-> post.designation]
    /\ pc' = "mkdir"
    /\ UNCHANGED <<dims, charBuffer, layerWithCharacter, finalCompositeLayers, canvasFailure,
                   finalBuffer, persisted, result, error, attempts>>
    /\ UNCHANGED <<envVars, sizing, firstRun, normalized, drawn, routeVars, ui>>
    /\ UNCHANGED <<fontsRegistered, registerCalls, registeredFonts, localFiles, storage>>

\* line 187 after the await: an error of mergeImages goes to the catch
PostMerged ==
    /\ post.pc = "merging"
    /\ pc \in {"returned", "failed"}
    /\ post' = IF pc = "failed"
               THEN [Catch(post, "mergeImages", error.message) EXCEPT !.error = error]
               ELSE [post EXCEPT !.pc = "insert"]
    /\ RouteUnchanged

\* lines 190-212: the row is inserted into generations, a dbError is logged,
\* and the response is success: true with the three images
PostInsert ==
    /\ post.pc = "insert"
    /\ \E ok \in BOOLEAN :
        post' = IF ok
                THEN Answer([post EXCEPT !.effects = @ \cup {"dbInsert"}], 200, "", TRUE)
                ELSE Answer([post EXCEPT !.failures = @ \cup {"dbInsert"}], 200, "", TRUE)
    /\ RouteUnchanged

NextRoute ==
    \/ PostReceive
    \/ PostArrayBuffer
    \/ PostTmpUpload
    \/ PostPublicUpload
    \/ PostInputUpload
    \/ PostResize
    \/ PostCallAI
    \/ PostFetchImage
    \/ PostTmpGenerated
    \/ PostPublicGenerated
    \/ PostGeneratedUpload
    \/ PostMerge
    \/ Mkdir
    \/ Metadata
    \/ CharResize
    \/ LayerComposite
    \/ LayerResize
    \/ FinalComposite
    \/ WriteFile
    \/ Upload
    \/ PostMerged
    \/ PostInsert

SpecRoute == Init /\ [][NextRoute]_vars

(***************************************************************************)
(* The ImageGenerator component (src/components/ImageGenerator.tsx, lines  *)
(* 8-217): its useState values and the FileReader reads it has started.    *)
(* An action is an event handler run by a control that is rendered in the  *)
(* current state, or the completion of a read or of the fetch.  A preview  *)
(* is the data URL of a file and is kept as the number of that file.       *)
(***************************************************************************)
\* the files the user picks from
Files == 1..MaxFiles

UiUnchanged ==
    UNCHANGED <<pipelineVars, sizing, firstRun, normalized, drawn, routeVars, post>>

\* isFormValid (line 101): the three texts are filled in and a file is selected
IsFormValid == ui.filled /\ ui.selectedFile # 0

\* the onChange handlers of lines 115, 125 and 136: name, designation and
\* prompt come to be all filled in, or one of them blank
EditFields ==
    /\ ui.finalImage = 0
    /\ ui' = [ui EXCEPT !.filled = ~@]
    /\ UiUnchanged

\* handleFileSelect (lines 19-27), called by ImageUpload, which is rendered
\* while there is no final image and no preview (lines 105, 147, 170)
HandleFileSelect(file) ==
    /\ ui.finalImage = 0
    /\ ui.uploadedImagePreview = 0
    /\ file \notin ui.readers
    /\ ui' = [ui EXCEPT !.selectedFile = file, !.error = "",
                        !.readers = @ \cup {file}]
    /\ UiUnchanged

\* reader.onloadend (lines 23-25): the result is the data URL of the file
\* the reader was started for, or null when the read failed
ReaderLoadEnd(file) ==
    /\ file \in ui.readers
    /\ \E ok \in BOOLEAN :
        ui' = [ui EXCEPT !.uploadedImagePreview = IF ok THEN file ELSE 0,
                         !.readers = @ \ {file}]
    /\ UiUnchanged

\* the onClick of line 159, on the button over the preview
RemovePreview ==
    /\ ui.finalImage = 0
    /\ ui.uploadedImagePreview # 0
    /\ ui' = [ui EXCEPT !.selectedFile = 0, !.uploadedImagePreview = 0]
    /\ UiUnchanged

\* handleGenerate up to the fetch (lines 29-62); the button is disabled
\* unless isFormValid && !loading (line 183)
HandleGenerate ==
    /\ ui.finalImage = 0
    /\ IsFormValid
    /\ ~ui.loading
    /\ ui' = [ui EXCEPT !.error = "", !.loading = TRUE, !.generatedImage = 0,
                        !.finalImage = 0]
    /\ UiUnchanged

\* handleGenerate after the fetch (lines 64-89): the images of the response,
\* or the error; then setLoading(false)
GenerateDone ==
    /\ ui.loading
    /\ \E ok \in BOOLEAN :
        ui' = IF ok
              THEN [ui EXCEPT !.generatedImage = 1, !.finalImage = 1, !.loading = FALSE]
              ELSE [ui EXCEPT !.error = "Server error", !.loading = FALSE]
    /\ UiUnchanged

\* handleReset (lines 92-99), the onReset of ImagePreview, which is rendered
\* while there is a final image (lines 105, 205-212)
HandleReset ==
    /\ ui.finalImage # 0
    /\ ui' = [ui EXCEPT !.selectedFile = 0, !.uploadedImagePreview = 0,
                        !.generatedImage = 0, !.finalImage = 0, !.error = "",
                        !.filled = FALSE]
    /\ UiUnchanged

NextUi ==
    \/ EditFields
    \/ \E file \in Files : HandleFileSelect(file)
    \/ \E file \in Files : ReaderLoadEnd(file)
    \/ RemovePreview
    \/ HandleGenerate
    \/ GenerateDone
    \/ HandleReset

SpecUi == Init /\ [][NextUi]_vars

(***************************************************************************)
(* The normalisation of the texts on its own (lines 115-116), over every   *)
(* text of up to MaxNormLen characters of a small alphabet, and the text   *)
(* each renderer is handed.  A behaviour normalises one text.              *)
(***************************************************************************)
NormAlphabet == {"a", "B", " ", "'", "-", "3"}
NormTexts == UNION {[1..n -> NormAlphabet] : n \in 0..MaxNormLen}

\* the name of a call: normalised, then drawn by the canvas or put in the markup
NormalizeNameText ==
    /\ normalized = NoNormalized
    /\ \E name \in NormTexts :
        LET nameText == NormalizeName(name)
        IN  normalized' =
                [field |-> "name", input |-> name, text |-> nameText,
                 canvas |-> CanvasText(nameText, <<>>, defaultLayerWidth,
                                       defaultLayerHeight).name.text,
                 svg |-> SvgText(nameText, <<>>, defaultLayerWidth,
                                 defaultLayerHeight).name.text]
    /\ UNCHANGED <<pipelineVars, sizing>>
    /\ UNCHANGED <<firstRun, drawn, routeVars, callerVars>>

\* the designation of a call
NormalizeDesignationText ==
    /\ normalized = NoNormalized
    /\ \E designation \in NormTexts :
        LET desText == NormalizeDesignation(designation)
        IN  normalized' =
                [field |-> "designation", input |-> designation, text |-> desText,
                 canvas |-> CanvasText(<<>>, desText, defaultLayerWidth,
                                       defaultLayerHeight).des.text,
                 svg |-> SvgText(<<>>, desText, defaultLayerWidth,
                                 defaultLayerHeight).des.text]
    /\ UNCHANGED <<pipelineVars, sizing>>
    /\ UNCHANGED <<firstRun, drawn, routeVars, callerVars>>

NextText ==
    \/ NormalizeNameText
    \/ NormalizeDesignationText

SpecText == Init /\ [][NextText]_vars

(***************************************************************************)
(* mergeImages called again with the arguments of the call before: the     *)
(* process state the first call left (the registration flag, the fonts     *)
(* registered, the files written) is the state the next call starts in.    *)
(***************************************************************************)
\* the first call of the process
StartFirst ==
    /\ invocations = 0
    /\ Start

\* a further call with the image, name and designation of the call before;
\* firstRun keeps what the first call that returned was given and produced
StartAgain ==
    /\ pc \in {"returned", "failed"}
    /\ invocations > 0
    /\ invocations < MaxInvocations
    /\ invocations' = invocations + 1
    /\ firstRun' = IF firstRun = NoRun /\ pc = "returned"
                   THEN [generatedImage |-> req.generatedImage, name |-> req.name,
                         designation |-> req.designation, canvasFailure |-> canvasFailure,
                         finalCompositeLayers |-> finalCompositeLayers,
                         finalBuffer |-> finalBuffer]
                   ELSE firstRun
    /\ \E ts \in 1..MaxTimestamp : req' = [req EXCEPT !.timestamp = ts]
    /\ pc' = "mkdir"
    /\ dims' = NoDims
    /\ charBuffer' = NoImage
    /\ layerWithCharacter' = NoImage
    /\ finalCompositeLayers' = <<>>
    /\ canvasFailure' = "notrun"
    /\ finalBuffer' = NoImage
    /\ persisted' = FALSE
    /\ result' = NoResult
    /\ error' = NoError
    /\ attempts' = <<>>
    /\ UNCHANGED <<envVars, sizing, normalized, drawn, routeVars, callerVars>>
    /\ UNCHANGED <<fontsRegistered, registerCalls, registeredFonts, localFiles, storage>>

NextTwice ==
    \/ StartFirst
    \/ StartAgain
    \/ Mkdir
    \/ Metadata
    \/ CharResize
    \/ LayerComposite
    \/ LayerResize
    \/ FinalComposite
    \/ WriteFile
    \/ Upload

SpecTwice == Init /\ [][NextTwice]_vars

(***************************************************************************)
(* drawTextWithKerning (lines 144-174) and its two calls (lines 176-200)   *)
(* on their own.  Widths are in hundredths of a pixel and horizontal       *)
(* positions in two-hundredths, so that half a width is exact.  The glyph  *)
(* metrics of the font files are not part of the source: measureText is a  *)
(* function of the character, the font size and the face, here one table   *)
(* of advance widths per face.  A behaviour draws one text.                *)
(***************************************************************************)
\* the advance width of a character in hundredths of the font size
EmWidth(char, face) ==
    CASE face = "Cal Sans" -> IF char = " " THEN 25 ELSE 62
      [] face = "Geist" ->
            IF char = " " THEN 28 ELSE IF IndexOf(char, UpperLetters) > 0 THEN 66 ELSE 54
      [] OTHER -> IF char \in {" ", "l", "i"} THEN 22 ELSE 56

\* the sum of the widths of the characters lo..hi, the font being set
RECURSIVE MeasureRange(_, _, _, _, _)
MeasureRange(text, lo, hi, fontSize, face) ==
    IF lo > hi
    THEN 0
    ELSE IF lo = hi
         THEN EmWidth(text[lo], face) * fontSize
         ELSE MeasureRange(text, lo, (lo + hi) \div 2, fontSize, face)
              + MeasureRange(text, (lo + hi) \div 2 + 1, hi, fontSize, face)

\* ctx.measureText(text).width of the first n characters
MeasureText(text, n, fontSize, face) == MeasureRange(text, 1, n, fontSize, face)

\* the second loop of drawTextWithKerning: fillText(char, currentX, y), then
\* currentX moves by width + letterSpacingPx; at the i-th character currentX
\* has moved by the widths and the spacings of the characters before it
DrawGlyphs(text, startX, y, fontSize, face, letterSpacing) ==
    [i \in 1..Len(text) |->
        [text |-> <<text[i]>>,
         x |-> startX + 2 * (MeasureText(text, i - 1, fontSize, face)
                             + (i - 1) * letterSpacing),
         y |-> y]]

\* the first loop: the widths plus one spacing per character, less one spacing
TotalWidth(text, fontSize, face, letterSpacing) ==
    MeasureText(text, Len(text), fontSize, face) + Len(text) * letterSpacing - letterSpacing

\* mutant: the spacing after the last character is not taken off the total
DrawTextWithKerningNoTrim(text, x, y, fontSize, face, letterSpacing) ==
    IF letterSpacing = 0
    THEN [totalWidth |-> MeasureText(text, Len(text), fontSize, face),
          calls |-> <<[text |-> text,
                       x |-> 200 * x - MeasureText(text, Len(text), fontSize, face),
                       y |-> y]>>]
    ELSE LET totalWidth == MeasureText(text, Len(text), fontSize, face)
                           + Len(text) * letterSpacing
         IN  [totalWidth |-> totalWidth,
              calls |-> DrawGlyphs(text, 200 * x - totalWidth, y, fontSize, face,
                                   letterSpacing)]

\* drawTextWithKerning(text, x, y, font, color, letterSpacingPx): the fillText
\* calls it makes, textAlign being 'left'
DrawTextWithKerning(text, x, y, fontSize, face, letterSpacing) ==
    IF letterSpacing = 0
    THEN [totalWidth |-> MeasureText(text, Len(text), fontSize, face),
          calls |-> <<[text |-> text,
                       x |-> 200 * x - MeasureText(text, Len(text), fontSize, face),
                       y |-> y]>>]
    ELSE LET totalWidth == TotalWidth(text, fontSize, face, letterSpacing)
         IN  [totalWidth |-> totalWidth,
              calls |-> DrawGlyphs(text, 200 * x - totalWidth, y, fontSize, face,
                                   letterSpacing)]

\* the lengths of the texts drawn: short ones, and ones the auto-scaling
\* shrinks down to the floor
DrawLengths == {1, 2, 5, 17, 30, 60, 80, MaxTextLen}

\* what mergeImages hands to drawTextWithKerning for an item of CanvasText
DrawItem(field, item) ==
    LET draw == DrawTextWithKerning(item.text, item.x, item.y, item.fontSize, item.face,
                                    item.letterSpacing)
    IN  [field |-> field, text |-> item.text, x |-> item.x, y |-> item.y,
         fontSize |-> item.fontSize, face |-> item.face,
         letterSpacing |-> item.letterSpacing, totalWidth |-> draw.totalWidth,
         calls |-> draw.calls]

\* lines 176-186: if (nameText) the name is drawn, letterSpacingPx left at 0
DrawName ==
    /\ drawn = NoDrawn
    /\ MetadataResolves
    /\ \E n \in DrawLengths :
        LET nameText == NormalizeName(Repeat(<<"a", "l", "e", "x", " ">>, n))
            w == OrDefault(assets.background.width, defaultBgWidth)
            h == OrDefault(assets.background.height, defaultBgHeight)
        IN  drawn' = DrawItem("name", CanvasText(nameText, <<>>, w, h).name)
    /\ UNCHANGED <<pipelineVars, sizing, firstRun, normalized, routeVars, callerVars>>

\* lines 188-200: if (desText) the designation is drawn with
\* letterSpacingPx = -0.04 * fontSize
DrawDesignation ==
    /\ drawn = NoDrawn
    /\ MetadataResolves
    /\ \E n \in DrawLengths :
        LET desText == NormalizeDesignation(Repeat(<<"l", "e", "a", "d", " ">>, n))
            w == OrDefault(assets.background.width, defaultBgWidth)
            h == OrDefault(assets.background.height, defaultBgHeight)
        IN  drawn' = DrawItem("designation", CanvasText(<<>>, desText, w, h).des)
    /\ UNCHANGED <<pipelineVars, sizing, firstRun, normalized, routeVars, callerVars>>

NextDraw ==
    \/ DrawName
    \/ DrawDesignation

SpecDraw == Init /\ [][NextDraw]_vars

(***************************************************************************)
(* The auto-scaling computation on its own: the name and the designation   *)
(* of mergeImages (lines 115-131, 178, 190, 219, 223) and the test cases   *)
(* of test-text-rendering.js (lines 56-69), over texts of every length.    *)
(* A behaviour evaluates the computation once, on one text.                *)
(***************************************************************************)
\* the testCases array of test-text-rendering.js
TestCases ==
    {[name |-> <<"J", "O", "H", "N">>, maxWidth |-> 900, baseSize |-> testBaseSize],
     [name |-> <<"A", "L", "E", "X", "A", "N", "D", "E", "R", " ",
                 "H", "A", "M", "I", "L", "T", "O", "N">>,
      maxWidth |-> 900, baseSize |-> testBaseSize],
     [name |-> <<"B", "H", "A", "G", "A", "V", "A", "D">>, maxWidth |-> 900,
      baseSize |-> testBaseSize]}

\* the name of a call: normalised, sized, and clamped by each renderer
SizeName ==
    /\ sizing = NoSizing
    /\ \E n \in 0..MaxTextLen :
        LET nameText == NormalizeName(Repeat(<<"a", "l", "e", "x", " ">>, n))
        IN  sizing' = [field |-> "name", text |-> nameText, baseSize |-> baseNameSize,
                       factor10 |-> nameFactor10, maxWidth |-> maxWidth,
                       floor |-> nameFloor, fontSize |-> NameFontSize(nameText),
                       canvasSize |-> CanvasNameFontSize(nameText),
                       svgSize |-> SvgNameFontSize(nameText)]
    /\ UNCHANGED <<pipelineVars, firstRun, normalized, drawn, routeVars, callerVars>>

\* the designation of a call
SizeDesignation ==
    /\ sizing = NoSizing
    /\ \E n \in 0..MaxTextLen :
        LET desText == NormalizeDesignation(Repeat(<<"l", "e", "a", "d", " ">>, n))
        IN  sizing' = [field |-> "designation", text |-> desText, baseSize |-> baseDesSize,
                       factor10 |-> desFactor10, maxWidth |-> maxWidth,
                       floor |-> desFloor, fontSize |-> DesFontSize(desText),
                       canvasSize |-> CanvasDesFontSize(desText),
                       svgSize |-> SvgDesFontSize(desText)]
    /\ UNCHANGED <<pipelineVars, firstRun, normalized, drawn, routeVars, callerVars>>

\* mutant: the length is counted one too high
TestFontSizeOffByOne(test) ==
    ComputeFontSize(Len(test.name) + 1, test.baseSize, testFactor10, test.maxWidth)

\* one iteration of testCases.forEach: the size is logged unclamped
TestFontSize(test) ==
    ComputeFontSize(Len(test.name), test.baseSize, testFactor10, test.maxWidth)

SizeTestCase ==
    /\ sizing = NoSizing
    /\ \E test \in TestCases \cup
                   {[name |-> Repeat(<<"A", "L", "E", "X", " ">>, n), maxWidth |-> 900,
                     baseSize |-> testBaseSize] : n \in 0..MaxTextLen} :
        sizing' = [field |-> "test", text |-> test.name, baseSize |-> test.baseSize,
                   factor10 |-> testFactor10, maxWidth |-> test.maxWidth, floor |-> 0,
                   fontSize |-> TestFontSize(test), canvasSize |-> TestFontSize(test),
                   svgSize |-> TestFontSize(test)]
    /\ UNCHANGED <<pipelineVars, firstRun, normalized, drawn, routeVars, callerVars>>

NextFont ==
    \/ SizeName
    \/ SizeDesignation
    \/ SizeTestCase

SpecFont == Init /\ [][NextFont]_vars

(***************************************************************************)
(* Properties of mergeImages, checked under Spec.                          *)
(***************************************************************************)
ThreeLayers == <<"background", "character", "frame">>
FourLayers == <<"background", "character", "frame", "text">>
LateMessages == {"finalComposite", "Failed to upload final image"}

\* C1: the raster mergeImages flattens and persists has exactly the width
\* and height of the background asset, whatever the character image, the
\* frame and the text layer measure.
C1_OutputDimensions ==
    finalBuffer # NoImage =>
        /\ finalBuffer.width = assets.background.width
        /\ finalBuffer.height = assets.background.height

C1_Witness ==
    /\ pc = "returned"
    /\ persisted
    /\ finalBuffer.width = 800
    /\ finalBuffer.height = 600
    /\ req.generatedImage.width = 300
    /\ Len(finalCompositeLayers) = 2

\* C2: the z-order of the poster is fixed: background, character, frame,
\* then the text layer if there is one; the character lies below the frame
\* and no layer of the final composite comes after the text layer.
C2_ZOrder ==
    /\ layerWithCharacter # NoImage => layerWithCharacter.stack = <<"character", "frame">>
    /\ \A i \in 1..Len(finalCompositeLayers) :
        finalCompositeLayers[i].input.stack = <<"text">> => i = Len(finalCompositeLayers)
    /\ finalBuffer # NoImage => finalBuffer.stack \in {ThreeLayers, FourLayers}
    /\ (finalBuffer # NoImage /\ finalBuffer.text # NoText) => finalBuffer.stack = FourLayers

C2_Witness ==
    /\ pc = "returned"
    /\ finalBuffer.stack = FourLayers
    /\ finalBuffer.text.backend = "canvas"

\* C3: when the canvas path throws, at whichever point, the SVG text layer
\* is pushed instead, mergeImages goes on to the final composite, and an
\* error it ends with comes from a later step, never from the canvas.
C3_CanvasFallback ==
    canvasFailure \notin {"notrun", "none"} =>
        /\ pc \in {"finalComposite", "writeFile", "upload", "returned", "failed"}
        /\ Len(finalCompositeLayers) = 2
        /\ finalCompositeLayers[2].input.text.backend = "svg"
        /\ finalCompositeLayers[2].blend = "over"
        /\ pc = "failed" => error.message \in LateMessages
        /\ finalBuffer # NoImage => finalBuffer.text.backend = "svg"

C3_Witness ==
    /\ canvasFailure = "registerGeist"
    /\ pc = "returned"
    /\ finalBuffer.text.backend = "svg"
    /\ error = NoError

\* C4: with name and designation both empty or absent the text block is
\* skipped: neither the canvas path nor the SVG path runs, the only layer
\* is the frame with the character, and the output is the composite of
\* background, character and frame alone.
C4_NoTextSkipsOverlay ==
    (req.name = <<>> /\ req.designation = <<>>) =>
        /\ canvasFailure = "notrun"
        /\ finalCompositeLayers # <<>> =>
            finalCompositeLayers =
                <<FrameLayer(Resize(layerWithCharacter, dims.bgWidth, dims.bgHeight))>>
        /\ finalBuffer # NoImage =>
            /\ finalBuffer.stack = ThreeLayers
            /\ finalBuffer.text = NoText
        /\ pc \in {"finalComposite", "writeFile", "upload", "returned"} =>
            Len(finalCompositeLayers) = 1

C4_Witness ==
    /\ pc = "returned"
    /\ req.name = <<>>
    /\ req.designation = <<>>
    /\ finalBuffer.stack = ThreeLayers
    /\ canvasFailure = "notrun"

\* C9: when a resize, composite or encode step fails, mergeImages throws
\* one error whose message starts with the name of the pipeline, returns
\* no path or URL, and has written its output nowhere.
C9_FailureIsWrapped ==
    (pc = "failed" /\ error.message \in
        {"charResize", "layerComposite", "layerResize", "finalComposite"}) =>
        /\ error.prefix = "Failed to merge images: "
        /\ result = NoResult
        /\ ~persisted
        /\ finalBuffer = NoImage

C9_Witness ==
    /\ pc = "failed"
    /\ error.message = "finalComposite"
    /\ canvasFailure = "none"
    /\ Len(finalCompositeLayers) = 2
    /\ finalCompositeLayers[2].input.valid
    /\ result = NoResult

\* C10: when the background or the frame asset cannot be read, mergeImages
\* fails at the metadata step: no size is set (no default is substituted),
\* no resize or composite runs and nothing is returned.
C10_MissingAssetAborts ==
    (~assets.background.readable \/ ~assets.layer.readable) =>
        /\ pc \in {"idle", "mkdir", "metadata", "failed"}
        /\ dims = NoDims
        /\ charBuffer = NoImage
        /\ layerWithCharacter = NoImage
        /\ finalCompositeLayers = <<>>
        /\ finalBuffer = NoImage
        /\ result = NoResult
        /\ ~persisted
        /\ pc = "failed" =>
            error = [prefix |-> "Failed to merge images: ", message |-> "metadata"]

C10_Witness ==
    /\ pc = "failed"
    /\ error.message = "metadata"
    /\ ~assets.background.readable
    /\ assets.layer.readable

\* C11 as claimed: over any sequence of invocations of mergeImages in one
\* process, those in which registration or the canvas throws included, each
\* font file is passed to registerFont at most once.
C11_RegistersAtMostOnce == \A f \in Fonts : registerCalls[f] <= 1

\* the text layer of the final composite, NoText when there is none
TextOfLayers ==
    IF Len(finalCompositeLayers) = 2 THEN finalCompositeLayers[2].input.text ELSE NoText

\* C15 as claimed: for every canvas height H the name is drawn at
\* floor(H * 0.752) and the designation at floor(H * 0.784), which is 1443
\* and 1505 for H = 1920.
C15_CanonicalPositions ==
    /\ TextOfLayers.name # NoItem =>
        /\ TextOfLayers.name.y = (dims.bgHeight * 752) \div 1000
        /\ dims.bgHeight = 1920 => TextOfLayers.name.y = 1443
    /\ TextOfLayers.des # NoItem =>
        /\ TextOfLayers.des.y = (dims.bgHeight * 784) \div 1000
        /\ dims.bgHeight = 1920 => TextOfLayers.des.y = 1505

RegisterPoint(f) == IF f = "CalSans" THEN "registerCalSans" ELSE "registerGeist"
SharpAndUploadMessages ==
    {"metadata", "charResize", "layerComposite", "layerResize", "finalComposite",
     "Failed to upload final image"}

\* C16: a font file that is absent is skipped: it is never passed to
\* registerFont, registration does not throw because of it, a canvas that
\* does not throw draws the text of that font with the substitute face, and
\* an error of mergeImages comes from a sharp step or the upload.
C16_MissingFontIsSkipped ==
    /\ \A f \in Fonts \ fontFiles :
        /\ registerCalls[f] = 0
        /\ f \notin registeredFonts
        /\ canvasFailure # RegisterPoint(f)
    /\ (canvasFailure = "none" /\ Len(finalCompositeLayers) = 2) =>
        /\ TextOfLayers.backend = "canvas"
        /\ ("CalSans" \notin fontFiles /\ TextOfLayers.name # NoItem) =>
            TextOfLayers.name.face = "Arial, sans-serif"
        /\ ("Geist" \notin fontFiles /\ TextOfLayers.des # NoItem) =>
            TextOfLayers.des.face = "Arial, sans-serif"
        /\ ("CalSans" \in fontFiles /\ TextOfLayers.name # NoItem) =>
            TextOfLayers.name.face = "Cal Sans"
    /\ pc = "failed" => error.message \in SharpAndUploadMessages

C16_Witness ==
    /\ pc = "returned"
    /\ fontFiles = {"CalSans"}
    /\ fontsRegistered
    /\ registerCalls = [f \in Fonts |-> IF f = "CalSans" THEN 1 ELSE 0]
    /\ finalBuffer.text.backend = "canvas"
    /\ finalBuffer.text.name.face = "Cal Sans"
    /\ finalBuffer.text.des.face = "Arial, sans-serif"

\* the geometry of one drawn text and of a text layer
ItemGeometry(item) ==
    [x |-> item.x, y |-> item.y, fontSize |-> item.fontSize, color |-> item.color,
     anchor |-> item.anchor, baseline |-> item.baseline,
     letterSpacing |-> item.letterSpacing]
Geometry(text) == [name |-> ItemGeometry(text.name), des |-> ItemGeometry(text.des)]

\* C18: for the normalised name and designation of a call, the canvas path
\* and the SVG path describe the same geometry: centre floor(width / 2), the
\* same vertical positions, the sizes max(nameFontSize, 24) and
\* max(desFontSize, 18), the same colours, middle anchor and middle
\* baseline, and a designation letter spacing of -4% of its font size.
C18_SameGeometry ==
    TextOfLayers # NoText =>
        LET nameText == TextOfLayers.name.text
            desText == TextOfLayers.des.text
            canvas == CanvasText(nameText, desText, dims.bgWidth, dims.bgHeight)
            svg == SvgText(nameText, desText, dims.bgWidth, dims.bgHeight)
        IN  /\ Geometry(canvas) = Geometry(svg)
            /\ Geometry(TextOfLayers) = Geometry(svg)
            /\ nameText # <<>> =>
                /\ TextOfLayers.name.x = dims.bgWidth \div 2
                /\ TextOfLayers.name.fontSize = Max(NameFontSize(nameText), 24)
                /\ TextOfLayers.name.anchor = "middle"
                /\ TextOfLayers.name.baseline = "middle"
            /\ desText # <<>> =>
                /\ TextOfLayers.des.x = dims.bgWidth \div 2
                /\ TextOfLayers.des.fontSize = Max(DesFontSize(desText), 18)
                /\ 100 * TextOfLayers.des.letterSpacing
                    = 0 - 4 * (100 * TextOfLayers.des.fontSize)

C18_Witness ==
    /\ pc = "returned"
    /\ canvasFailure = "draw"
    /\ finalBuffer.text.backend = "svg"
    /\ finalBuffer.text.des.fontSize = 18
    /\ finalBuffer.text.des.letterSpacing = 0 - 72
    /\ finalBuffer.text.name.fontSize = 24

\* C19: whatever the character image and the frame measure, the character
\* is resized to exactly (fw, floor(fh * 0.60)) with a cover fit anchored at
\* the top: one scale for both axes, the box covered, nothing cropped from
\* the top; it is composited under the frame at left 0 and the constant top
\* offset with dest-over blending.
C19_CharacterFit ==
    /\ charBuffer # NoImage =>
        /\ charBuffer.width = assets.layer.width
        /\ charBuffer.height = (assets.layer.height * 60) \div 100
        /\ charBuffer.fit.kind = "cover"
        /\ charBuffer.fit.position = "top"
        /\ charBuffer.fit.cropTop = 0
        /\ charBuffer.fit.fromWidth = req.generatedImage.width
        /\ charBuffer.fit.fromHeight = req.generatedImage.height
        /\ charBuffer.fit.scaledWidth >= charBuffer.width
        /\ charBuffer.fit.scaledHeight >= charBuffer.height
        /\ \/ charBuffer.fit.scaledWidth = charBuffer.width
           \/ charBuffer.fit.scaledHeight = charBuffer.height
        /\ LET skew == charBuffer.fit.scaledWidth * charBuffer.fit.fromHeight
                       - charBuffer.fit.scaledHeight * charBuffer.fit.fromWidth
           IN  /\ skew < charBuffer.fit.fromWidth + charBuffer.fit.fromHeight
               /\ 0 - skew < charBuffer.fit.fromWidth + charBuffer.fit.fromHeight
    /\ layerWithCharacter # NoImage =>
        /\ layerWithCharacter.stack = <<"character", "frame">>
        /\ CharacterLayer(charBuffer) =
            [input |-> charBuffer, blend |-> "dest-over", top |-> 350, left |-> 0,
             gravity |-> "none"]

C19_Witness ==
    /\ layerWithCharacter # NoImage
    /\ req.generatedImage.width = 1024
    /\ req.generatedImage.height = 1024
    /\ charBuffer.width = 1080
    /\ charBuffer.height = 1152
    /\ charBuffer.fit.scaledWidth = 1152
    /\ charBuffer.fit.scaledHeight = 1152
    /\ charBuffer.fit.cropLeft = 36

\* C20 as claimed: before the character is composited under it, the frame
\* is resized to exactly the output dimensions, those of the background.
C20_FrameHasOutputDimensions ==
    layerWithCharacter # NoImage =>
        /\ layerWithCharacter.width = assets.background.width
        /\ layerWithCharacter.height = assets.background.height

\* C20 as amended: before the character is composited under it the frame
\* is resized to its own width and height, which changes nothing; it is the
\* frame with the character under it that is then resized to exactly the
\* output dimensions, with a cover fit around the centre: one scale for both
\* axes and the overflow cropped, not stretched.
C20_FrameKeepsSizeThenCover ==
    /\ layerWithCharacter # NoImage =>
        /\ layerWithCharacter.width = assets.layer.width
        /\ layerWithCharacter.height = assets.layer.height
        /\ layerWithCharacter.fit.scaledWidth = assets.layer.width
        /\ layerWithCharacter.fit.scaledHeight = assets.layer.height
        /\ layerWithCharacter.fit.cropLeft = 0
        /\ layerWithCharacter.fit.cropTop = 0
    /\ finalCompositeLayers # <<>> =>
        LET framed == finalCompositeLayers[1].input
        IN  /\ framed.stack = <<"character", "frame">>
            /\ framed.width = assets.background.width
            /\ framed.height = assets.background.height
            /\ framed.fit.kind = "cover"
            /\ framed.fit.position = "centre"
            /\ framed.fit.fromWidth = assets.layer.width
            /\ framed.fit.fromHeight = assets.layer.height
            /\ framed.fit.scaledWidth >= framed.width
            /\ framed.fit.scaledHeight >= framed.height
            /\ framed.fit.cropLeft = (framed.fit.scaledWidth - framed.width) \div 2
            /\ framed.fit.cropTop = (framed.fit.scaledHeight - framed.height) \div 2
            /\ (framed.width * assets.layer.height # framed.height * assets.layer.width) =>
                \/ framed.fit.scaledWidth > framed.width
                \/ framed.fit.scaledHeight > framed.height

C20_Witness ==
    /\ pc = "returned"
    /\ layerWithCharacter.width = 540
    /\ layerWithCharacter.height = 800
    /\ finalCompositeLayers[1].input.width = 800
    /\ finalCompositeLayers[1].input.height = 600
    /\ finalCompositeLayers[1].input.fit.scaledHeight = 1186
    /\ finalCompositeLayers[1].input.fit.cropTop = 293

\* the awaited operations of mergeImages in the order of the source; the
\* local write belongs to development and the upload to production
StepOrder ==
    <<"mkdir", "backgroundMetadata", "layerMetadata", "charResize", "layerComposite",
      "layerResize", "finalComposite", "writeFile", "upload">>

\* the place of an operation in StepOrder, 0 for anything else; a log whose
\* places go strictly up holds no operation twice
StepIndex(step) ==
    CASE step = StepOrder[1] -> 1
      [] step = StepOrder[2] -> 2
      [] step = StepOrder[3] -> 3
      [] step = StepOrder[4] -> 4
      [] step = StepOrder[5] -> 5
      [] step = StepOrder[6] -> 6
      [] step = StepOrder[7] -> 7
      [] step = StepOrder[8] -> 8
      [] step = StepOrder[9] -> 9
      [] OTHER -> 0

\* the operations whose rejection reaches the catch of lines 284-287
FailingSteps(message) ==
    CASE message = "metadata" -> {"backgroundMetadata", "layerMetadata"}
      [] message = "Failed to upload final image" -> {"upload"}
      [] OTHER -> {message}

\* C22: within one invocation every asset read, every resize, composite and
\* encode step, the local write and the upload is started at most once and
\* in the order of the source; an invocation that failed holds one error,
\* the one of the operation it started last, and one that has not failed
\* holds none.
C22_NoRetries ==
    /\ \A i \in 1..Len(attempts) : StepIndex(attempts[i]) > 0
    /\ \A i \in 2..Len(attempts) : StepIndex(attempts[i - 1]) < StepIndex(attempts[i])
    /\ pc = "failed" =>
        /\ error # NoError
        /\ attempts # <<>>
        /\ attempts[Len(attempts)] \in FailingSteps(error.message)
    /\ pc # "failed" => error = NoError

C22_Witness ==
    /\ pc = "failed"
    /\ isProduction
    /\ error.message = "Failed to upload final image"
    /\ attempts = <<"mkdir", "backgroundMetadata", "layerMetadata", "charResize",
                    "layerComposite", "layerResize", "finalComposite", "upload">>
    /\ storage = {}

\* the invocation has come to the final composite of lines 237-241
ReachedFinalComposite ==
    \/ pc \in {"finalComposite", "writeFile", "upload", "returned"}
    \/ pc = "failed" /\ error.message \in LateMessages

\* the entries of finalCompositeLayers that hold a rendered text
TextLayersOf(layers, backend) ==
    {i \in 1..Len(layers) : layers[i].input.text.backend = backend}

\* C25: when mergeImages reaches the final composite, the list composited
\* onto the background starts with the one frame+character layer and goes
\* on with one text layer when name or designation is non-empty and with
\* nothing otherwise; the text layer is the SVG one exactly when the canvas
\* path threw, and the list never holds a canvas and an SVG text layer.
C25_LayerList ==
    /\ ReachedFinalComposite =>
        /\ Len(finalCompositeLayers) =
                IF req.name # <<>> \/ req.designation # <<>> THEN 2 ELSE 1
        /\ finalCompositeLayers[1].input.stack = <<"character", "frame">>
        /\ finalCompositeLayers[1].input.text = NoText
        /\ \A i \in 2..Len(finalCompositeLayers) :
            /\ finalCompositeLayers[i].input.stack = <<"text">>
            /\ finalCompositeLayers[i].input.text.backend =
                    IF canvasFailure = "none" THEN "canvas" ELSE "svg"
    /\ LET canvasLayers == TextLayersOf(finalCompositeLayers, "canvas")
           svgLayers == TextLayersOf(finalCompositeLayers, "svg")
       IN  /\ canvasLayers = {} \/ svgLayers = {}
           /\ Cardinality(canvasLayers \cup svgLayers) <= 1

C25_Witness ==
    /\ pc = "finalComposite"
    /\ canvasFailure = "toBuffer"
    /\ req.name # <<>>
    /\ Len(finalCompositeLayers) = 2
    /\ finalCompositeLayers[2].input.text.backend = "svg"
    /\ TextLayersOf(finalCompositeLayers, "canvas") = {}

\* C24 as claimed: an invocation that returned has persisted its final
\* image where the returned value points: a returned path names a file the
\* invocation wrote to public/final, a returned URL an object it uploaded.
C24_ReturnsOnlyPersisted ==
    pc = "returned" =>
        /\ persisted
        /\ result.kind = "path" => result.file \in localFiles
        /\ result.kind = "url" => result.file \in storage

\* C26 as claimed: for every frame the character box, laid at the top
\* offset 350 with the height floor(layerHeight * 0.60), ends inside the
\* frame, and it is as wide as the frame and laid at the left offset 0.
C26_CharacterBoxInsideFrame ==
    charBuffer # NoImage =>
        /\ charTopOffset + charBuffer.height <= dims.layerHeight
        /\ charBuffer.height = (dims.layerHeight * 60) \div 100
        /\ charBuffer.width = dims.layerWidth
        /\ charLeftOffset = 0

(***************************************************************************)
(* Properties of concurrent requests, checked under SpecConc.              *)
(***************************************************************************)
\* the poster composed of the character image and the texts of a request
OwnPoster(r) == [character |-> r, text |-> IF requests[r].hasText THEN r ELSE 0]

\* C12 as claimed: under every interleaving of the requests, two requests
\* with one timestamp included, the final image a request returns is the
\* poster composed of its own character image, name and designation.
C12_OwnFinalImage ==
    \A r \in Requests :
        (/\ requests[r].pc = "responded"
         /\ requests[r].status = 200
         /\ finalImages[requests[r].finalImage] # NoPoster) =>
            finalImages[requests[r].finalImage] = OwnPoster(r)

\* C17 as claimed: under every interleaving of first calls, two requests
\* never both perform the font registration.
C17_OneRegistrant == Cardinality(registrants) <= 1

(***************************************************************************)
(* Properties of the normalisation, checked under SpecText.                *)
(***************************************************************************)
IsLower(c) == IndexOf(c, LowerLetters) > 0
IsUpper(c) == IndexOf(c, UpperLetters) > 0
\* a word is a run of letters, digits and apostrophes; its first letter is
\* the letter or digit that only apostrophes precede in the word
InWord(c) == IsLower(c) \/ IsUpper(c) \/ c \in {"0", "1", "2", "3", "'"}
StartsWord(text, i) ==
    /\ InWord(text[i])
    /\ text[i] # "'"
    /\ \A j \in 1..(i - 1) :
        (\A k \in j..(i - 1) : InWord(text[k])) => text[j] = "'"

\* C14 as claimed: the name is drawn all in capitals and the designation in
\* title case, the first letter of each word a capital and every other
\* letter small, by the canvas path and by the SVG path.
C14_NormalizedCase ==
    /\ normalized.field # "none" =>
        /\ normalized.canvas = normalized.text
        /\ normalized.svg = normalized.text
        /\ Len(normalized.text) = Len(normalized.input)
    /\ normalized.field = "name" =>
        \A i \in 1..Len(normalized.text) : ~IsLower(normalized.text[i])
    /\ normalized.field = "designation" =>
        \A i \in 1..Len(normalized.text) :
            IF StartsWord(normalized.text, i)
            THEN ~IsLower(normalized.text[i])
            ELSE ~IsUpper(normalized.text[i])

(***************************************************************************)
(* Properties of repeated invocations, checked under SpecTwice.            *)
(***************************************************************************)
\* this call returned and was given what the first call to return was given
ReturnedAgain ==
    /\ pc = "returned"
    /\ firstRun # NoRun
    /\ req.generatedImage = firstRun.generatedImage
    /\ req.name = firstRun.name
    /\ req.designation = firstRun.designation

FatalFailures ==
    {"formData", "arrayBuffer", "tmpUpload", "resize", "noKey", "aiFetch", "aiStatus",
     "aiBody", "aiNoImage", "fetchImage", "tmpGenerated", "mergeImages"}

\* C27: a POST whose form holds no image is answered with status 400 and
\* the error 'No image provided', and it has done nothing else: no file
\* written, no upload, no call of the image model, no invocation of
\* mergeImages, no row inserted.
C27_NoImageNoEffect ==
    (post.parsed /\ post.image = "none") =>
        /\ post.pc = "responded"
        /\ post.responses = 1
        /\ post.status = 400
        /\ post.error.message = "No image provided"
        /\ ~post.success
        /\ post.effects = {}
        /\ post.failures = {}
        /\ post.thrown = ""
        /\ invocations = 0
        /\ pc = "idle"
        /\ attempts = <<>>
        /\ localFiles = {}
        /\ storage = {}

C27_Witness ==
    /\ post.parsed
    /\ post.image = "none"
    /\ post.name = ShortName
    /\ post.status = 400
    /\ post.responses = 1
    /\ post.effects = {}

\* C28: a POST is answered once, and every state before the answer has a
\* next step; a failure that is thrown (after the image was validated: the
\* temp file write, the missing API key, the error status or the missing
\* image of the image model, mergeImages) is answered with status 500 and
\* a message, without a row inserted and without success; a failed upload
\* of the input image or of the generated image and a failed insert are
\* never thrown, and a POST with an image in which nothing was thrown is
\* answered with success.
C28_OneResponse ==
    /\ post.responses <= 1
    /\ post.pc = "responded" <=> post.responses = 1
    /\ post.pc \notin {"idle", "responded"} => ENABLED NextRoute
    /\ post.thrown \in FatalFailures \cup {""}
    /\ post.thrown # "" =>
        /\ post.pc = "responded"
        /\ post.status = 500
        /\ post.error.message # ""
        /\ ~post.success
        /\ "dbInsert" \notin post.effects
    /\ post.thrown = "mergeImages" <=> (post.pc = "responded" /\ pc = "failed")
    /\ (post.pc = "responded" /\ post.thrown = "" /\ post.image # "none") =>
        /\ post.status = 200
        /\ post.success
    /\ post.success =>
        /\ post.status = 200
        /\ post.thrown = ""
        /\ pc = "returned"
    /\ "dbInsert" \in post.effects => post.success

C28_Witness ==
    /\ post.pc = "responded"
    /\ post.thrown = "mergeImages"
    /\ post.status = 500
    /\ post.error.prefix = "Failed to merge images: "
    /\ {"inputUpload", "generatedUpload"} \subseteq post.failures
    /\ {"tmpUpload", "aiCall", "tmpGenerated", "mergeImages"} \subseteq post.effects
    /\ "dbInsert" \notin post.effects

(***************************************************************************)
(* Properties of the ImageGenerator component, checked under SpecUi.       *)
(***************************************************************************)
\* C29 as claimed: under every interleaving of file selections, completions
\* of reads, removals of the preview, generations and resets, a preview is
\* shown only while a file is selected, and it is the preview of that file.
C29_PreviewOfSelectedFile ==
    ui.uploadedImagePreview # 0 =>
        /\ ui.selectedFile # 0
        /\ ui.uploadedImagePreview = ui.selectedFile

(***************************************************************************)
(* Properties of drawTextWithKerning, checked under SpecDraw.              *)
(***************************************************************************)
\* the measured width of the i-th character of the drawn text
DrawnGlyphWidth(i) == EmWidth(drawn.text[i], drawn.face) * drawn.fontSize

\* C23: the designation is drawn one character per fillText call with a
\* letter spacing of -4% of the font size it is drawn at; the width used for
\* centring is the sum of the character widths plus (n - 1) times the
\* spacing, the first character starts at the centre minus half that
\* width and each next one a width plus a spacing further on; the name is
\* drawn by one call, with no letter spacing, centred on its measured width.
C23_LetterSpacing ==
    /\ drawn.field = "designation" =>
        /\ 100 * drawn.letterSpacing = 0 - 4 * (100 * drawn.fontSize)
        /\ Len(drawn.calls) = Len(drawn.text)
        /\ drawn.totalWidth =
                MeasureText(drawn.text, Len(drawn.text), drawn.fontSize, drawn.face)
                + (Len(drawn.text) - 1) * drawn.letterSpacing
        /\ drawn.calls[1].x = 200 * drawn.x - drawn.totalWidth
        /\ \A i \in 1..Len(drawn.calls) :
            /\ drawn.calls[i].text = <<drawn.text[i]>>
            /\ drawn.calls[i].y = drawn.y
            /\ i > 1 => drawn.calls[i].x - drawn.calls[i - 1].x =
                            2 * (DrawnGlyphWidth(i - 1) + drawn.letterSpacing)
    /\ drawn.field = "name" =>
        /\ drawn.letterSpacing = 0
        /\ Len(drawn.calls) = 1
        /\ drawn.calls[1].text = drawn.text
        /\ drawn.calls[1].y = drawn.y
        /\ drawn.calls[1].x =
                200 * drawn.x - MeasureText(drawn.text, Len(drawn.text), drawn.fontSize,
                                            drawn.face)

C23_Witness ==
    /\ drawn.field = "designation"
    /\ Len(drawn.text) = 60
    /\ drawn.fontSize = 30
    /\ drawn.face = "Geist"
    /\ drawn.letterSpacing = 0 - 120
    /\ Len(drawn.calls) = 60
    /\ drawn.x = 540
    /\ drawn.calls[2].x - drawn.calls[1].x = 2 * (66 * 30 - 120)

(***************************************************************************)
(* Properties of the auto-scaling computation, checked under SpecFont.     *)
(***************************************************************************)
\* ten times the estimated width of the sized text at its base size
SizedEstimate10 == EstimatedWidth10(Len(sizing.text), sizing.baseSize, sizing.factor10)

\* ten times the estimated width at a given font size
WidthAt10(size) == Len(sizing.text) * size * sizing.factor10

AlexanderHamilton ==
    <<"A", "L", "E", "X", "A", "N", "D", "E", "R", " ", "H", "A", "M", "I", "L", "T", "O", "N">>

\* C5: a text whose estimated width is at most maxWidth keeps the base font
\* size, for the name, the designation and the test cases.
C5_FittingTextKeepsBase ==
    (sizing.field # "none" /\ SizedEstimate10 <= sizing.maxWidth * 10) =>
        sizing.fontSize = sizing.baseSize

C5_Witness ==
    /\ sizing.field = "test"
    /\ sizing.text = <<"J", "O", "H", "N">>
    /\ SizedEstimate10 = 1920
    /\ sizing.fontSize = 80

\* C6: a name or designation whose estimated width exceeds maxWidth is
\* rendered, by the canvas path and by the SVG path, at a size strictly
\* below its base size and not below its floor (24 and 18).
C6_ScaledBelowBaseAboveFloor ==
    (sizing.field \in {"name", "designation"} /\ SizedEstimate10 > sizing.maxWidth * 10) =>
        /\ sizing.canvasSize < sizing.baseSize
        /\ sizing.canvasSize >= sizing.floor
        /\ sizing.svgSize < sizing.baseSize
        /\ sizing.svgSize >= sizing.floor

C6_Witness ==
    /\ sizing.field = "name"
    /\ Len(sizing.text) = 63
    /\ sizing.fontSize = 23
    /\ sizing.canvasSize = 24
    /\ sizing.svgSize = 24

\* C7 as claimed: at the font size finally used, the estimated width of
\* every name and designation is at most maxWidth.
C7_NeverOverflows ==
    sizing.field \in {"name", "designation"} =>
        /\ WidthAt10(sizing.canvasSize) <= sizing.maxWidth * 10
        /\ WidthAt10(sizing.svgSize) <= sizing.maxWidth * 10

\* C7 as amended: the estimated width at the font size finally used is at
\* most maxWidth whenever the computed size is not below the floor of the
\* field; a size raised to the floor may overflow.
C7_FitsUnlessClamped ==
    (sizing.field \in {"name", "designation"} /\ sizing.fontSize >= sizing.floor) =>
        /\ WidthAt10(sizing.canvasSize) <= sizing.maxWidth * 10
        /\ WidthAt10(sizing.svgSize) <= sizing.maxWidth * 10

C7_Witness ==
    /\ sizing.field = "designation"
    /\ SizedEstimate10 > sizing.maxWidth * 10
    /\ sizing.fontSize >= sizing.floor
    /\ sizing.canvasSize < sizing.baseSize

\* C8 as claimed: "ALEXANDER HAMILTON" at base 80, factor 0.6, maxWidth 900
\* has an estimated width of 912 and is scaled to 78.
C8_AlexanderScaledTo78 ==
    (sizing.field = "test" /\ sizing.text = AlexanderHamilton) =>
        /\ SizedEstimate10 = 9120
        /\ sizing.fontSize = 78

\* C8 as amended: "ALEXANDER HAMILTON" has 18 characters, so its estimated
\* width is 864, which does not exceed 900, and it keeps the size 80; a
\* text of 19 characters has the estimated width 912 and is scaled to 78.
C8_AlexanderKeeps80 ==
    /\ (sizing.field = "test" /\ sizing.text = AlexanderHamilton) =>
        /\ Len(sizing.text) = 18
        /\ SizedEstimate10 = 8640
        /\ sizing.fontSize = 80
    /\ (sizing.field = "test" /\ Len(sizing.text) = 19) =>
        /\ SizedEstimate10 = 9120
        /\ sizing.fontSize = 78

C8_Witness ==
    /\ sizing.field = "test"
    /\ sizing.text = AlexanderHamilton
    /\ sizing.baseSize = 80
    /\ sizing.fontSize = 80

\* C21: for a text whose estimated width exceeds maxWidth the computed font
\* size is the floor of baseSize * maxWidth / estimatedWidth, that is the
\* largest integer s with s * estimatedWidth <= baseSize * maxWidth; and
\* when that size is not below the floor of the field, the estimated width
\* at that size, len * s * factor, is at most maxWidth.
C21_ScaledSizeIsFloor ==
    (sizing.field # "none" /\ SizedEstimate10 > sizing.maxWidth * 10) =>
        /\ sizing.fontSize * SizedEstimate10 <= sizing.baseSize * sizing.maxWidth * 10
        /\ (sizing.fontSize + 1) * SizedEstimate10 > sizing.baseSize * sizing.maxWidth * 10
        /\ sizing.fontSize >= sizing.floor =>
              /\ WidthAt10(sizing.fontSize) <= sizing.maxWidth * 10
              /\ sizing.canvasSize = sizing.fontSize
              /\ sizing.svgSize = sizing.fontSize

C21_Witness ==
    /\ sizing.field = "name"
    /\ Len(sizing.text) = 35
    /\ SizedEstimate10 = 13440
    /\ sizing.fontSize = 42
    /\ WidthAt10(sizing.fontSize) = 8820

TypeOK ==
    /\ pc \in {"idle", "mkdir", "metadata", "charResize", "layerComposite", "layerResize",
               "finalComposite", "writeFile", "upload", "returned", "failed"}
    /\ fontsRegistered \in BOOLEAN
    /\ registeredFonts \subseteq fontFiles
    /\ invocations \in 0..MaxInvocations
    /\ \A f \in Fonts : registerCalls[f] \in 0..(invocations + Cardinality(registrants))
    /\ clock \in Timestamps
    /\ registrants \subseteq Requests
    /\ \A r \in Requests : requests[r].timestamp \in 0..clock
    /\ localFiles \subseteq 1..MaxTimestamp
    /\ storage \subseteq 1..MaxTimestamp
    /\ canvasFailure \in CanvasFailPoints \cup {"notrun"}
    /\ Len(attempts) <= Len(StepOrder)
    /\ drawn.field \in {"none", "name", "designation"}
    /\ post.responses \in 0..1
    /\ post.status \in {0, 200, 400, 500}
    /\ post.image \in {"none", "text", "file"}
    /\ ui.selectedFile \in 0..MaxFiles
    /\ ui.uploadedImagePreview \in 0..MaxFiles
    /\ ui.readers \subseteq Files
    /\ ui.loading \in BOOLEAN

====
